---- MODULE Spec2Model ----
(***************************************************************************)
(* Ant colony simulation: World / Node / Ant and the per-tick loop of      *)
(* SimulationEngine::run_simulation (src/src/simulation/engine.rs).        *)
(* Colony ids and ant ids are 0-based as in the code; the active list and  *)
(* the touched lists are sequences (Vec) in insertion order.               *)
(***************************************************************************)
EXTENDS Integers, Sequences, FiniteSets, TLC

VARIABLES
    nodes,          \* World.nodes : colony id -> [neighbors, alive]
    ants,           \* Vec<Ant>    : ant index -> [pos, id, moves, state]
    args,           \* Args        : [ants, max_moves]
    active,         \* Vec<usize> of active ant indices
    gen,            \* per-colony generation stamp
    occ_count,      \* tick scratch: occupant count
    occ_first,      \* tick scratch: first occupant id
    occ_second,     \* tick scratch: second occupant id
    cur_gen,        \* current generation
    gen_mod,        \* 2^w, w the width of the generation counter
    base_occ,       \* stationary stock: count
    base_first,     \* stationary stock: first id
    base_second,    \* stationary stock: second id
    touched_nodes,  \* colonies touched this tick (scratch layer)
    base_touched,   \* colonies that got a new stationary ant this tick
    next_pos,       \* per-ant destination buffer
    trapped_now,    \* per-ant became-trapped buffer
    pc,             \* position in run_simulation
    events,         \* log_destruction calls so far: <<colony, ant1, ant2>>
    ticks,          \* number of loop bodies entered
    snap,           \* state at the start of the running tick and the tick's
                    \* random draws (history)
    cn,             \* choose_next_position harness: [pos, out]
    early,          \* history: [skipped, alive], set when a run goes on past
                    \* a tick that leaves at most one ant alive
    parser,         \* parse_world_from_str: [lines, line, names, name_to_id,
                    \* edges, next]
    detector,       \* CollisionDetector, stationary layer: [base_occupancy,
                    \* base_first, base_second, base_touched] and the
                    \* history fields added, calls
    orig            \* the original program (main.rs main): its locals

vars == <<nodes, ants, args, active, gen, occ_count, occ_first, occ_second,
          cur_gen, gen_mod, base_occ, base_first, base_second, touched_nodes,
          base_touched, next_pos, trapped_now, pc, events, ticks, snap, cn,
          early, parser, detector, orig>>

(***************************************************************************)
(* Sentinels and bounds                                                    *)
(***************************************************************************)
\* u32::MAX as "no tunnel" (i32::MAX here: TLC integers are 32-bit signed)
INVALID_NODE == 2147483647
\* u32::MAX as "no ant recorded" in the first/second slots
NO_ANT == 2147483647
\* stands for 2^32, the modulus of cur_gen.wrapping_add(1): far above MaxTicks
U32_MODULUS == 65536

MaxAnts == 3
MaxLines == 2
MaxMoveLimit == 3
MaxTicks == 5

\* width in bits of a generation counter narrow enough to wrap within MaxTicks
GenWidth == 2

(***************************************************************************)
(* Node (src/src/world/node.rs)                                            *)
(***************************************************************************)
NewNode(nb) == [neighbors |-> nb, alive |-> TRUE]

DestroyToggle(node) == [node EXCEPT !.alive = ~node.alive]

Destroy(node) == [node EXCEPT !.alive = FALSE]

IsAliveNode(node) == node.alive

\* Node::set_neighbor (node.rs:24-26); slots are 0-based in the code
SetNeighbor(node, direction_idx, neighbor_id) ==
    [node EXCEPT !.neighbors[direction_idx + 1] = neighbor_id]

(***************************************************************************)
(* Direction (src/src/direction.rs): Direction::index                      *)
(***************************************************************************)
NORTH == 0
SOUTH == 1
EAST == 2
WEST == 3

(***************************************************************************)
(* Ant (src/src/ant.rs): state bit 0 = alive, bit 1 = trapped              *)
(***************************************************************************)
ALIVE == 1
TRAPPED == 2

NewAnt(id, pos) == [pos |-> pos, id |-> id, moves |-> 0, state |-> ALIVE]

IsAlive(a) == (a.state % 2) = 1

IsTrapped(a) == ((a.state \div 2) % 2) = 1

SetAlive(a, v) ==
    IF v THEN [a EXCEPT !.state = IF IsAlive(a) THEN @ ELSE @ + ALIVE]
         ELSE [a EXCEPT !.state = IF IsAlive(a) THEN @ - ALIVE ELSE @]

SetTrapped(a, v) ==
    IF v THEN [a EXCEPT !.state = IF IsTrapped(a) THEN @ ELSE @ + TRAPPED]
         ELSE [a EXCEPT !.state = IF IsTrapped(a) THEN @ - TRAPPED ELSE @]

\* mutant: the move is counted but the position is not updated
MoveToCountOnly(a, new_pos) == [a EXCEPT !.moves = @ + 1]

\* mutant: the position is updated but the move is not counted
MoveToNoCount(a, new_pos) == [a EXCEPT !.pos = new_pos]

MoveTo(a, new_pos) == [a EXCEPT !.pos = new_pos, !.moves = @ + 1]

\* mutant: the limit test is off by one
HasMaxMovesPastLimit(a, max_moves) == a.moves > max_moves

HasMaxMoves(a, max_moves) == a.moves >= max_moves

(***************************************************************************)
(* Worlds: the maps the runs start from, as parse_world_from_str builds    *)
(* them (slot order North, South, East, West).                             *)
(***************************************************************************)
NoExits == <<INVALID_NODE, INVALID_NODE, INVALID_NODE, INVALID_NODE>>

Exits(n, s, e, w) == <<n, s, e, w>>

\* "A north=A east=C / B north=B west=C / C": two colonies with a self loop
\* and an exit each to a third one
SelfLoopFanIn ==
    <<Exits(0, INVALID_NODE, 2, INVALID_NODE),
      Exits(1, INVALID_NODE, INVALID_NODE, 2), NoExits>>

Maps ==
    << \* "X"
       <<NoExits>>,
       \* "A east=B"
       <<Exits(INVALID_NODE, INVALID_NODE, 1, INVALID_NODE), NoExits>>,
       \* "A north=B / B north=C / C north=A" (3-node cycle)
       <<Exits(1, INVALID_NODE, INVALID_NODE, INVALID_NODE),
         Exits(2, INVALID_NODE, INVALID_NODE, INVALID_NODE),
         Exits(0, INVALID_NODE, INVALID_NODE, INVALID_NODE)>>,
       \* "A north=A / B south=B" (self loops only)
       <<Exits(0, INVALID_NODE, INVALID_NODE, INVALID_NODE),
         Exits(INVALID_NODE, 1, INVALID_NODE, INVALID_NODE)>>,
       \* "A east=B north=C / C south=A"
       <<Exits(2, INVALID_NODE, 1, INVALID_NODE), NoExits,
         Exits(INVALID_NODE, 0, INVALID_NODE, INVALID_NODE)>>,
       \* "A east=B / B east=C / C east=D" (chain)
       <<Exits(INVALID_NODE, INVALID_NODE, 1, INVALID_NODE),
         Exits(INVALID_NODE, INVALID_NODE, 2, INVALID_NODE),
         Exits(INVALID_NODE, INVALID_NODE, 3, INVALID_NODE), NoExits>>,
       \* "A east=C / B west=C" (fan-in)
       <<Exits(INVALID_NODE, INVALID_NODE, 2, INVALID_NODE),
         Exits(INVALID_NODE, INVALID_NODE, INVALID_NODE, 2), NoExits>>,
       \* "A north=B south=C east=B west=A / B north=A / C south=A"
       <<Exits(1, 2, 1, 0),
         Exits(0, INVALID_NODE, INVALID_NODE, INVALID_NODE),
         Exits(INVALID_NODE, 0, INVALID_NODE, INVALID_NODE)>>,
       \* "A north=B west=C / B south=A / C east=A / D" (tests/smoke.rs)
       <<Exits(1, INVALID_NODE, INVALID_NODE, 2),
         Exits(INVALID_NODE, 0, INVALID_NODE, INVALID_NODE),
         Exits(INVALID_NODE, INVALID_NODE, 0, INVALID_NODE), NoExits>>,
       \* "A east=B west=C / B east=C west=A / C east=A west=B" (3-node cycle,
       \* both ways)
       <<Exits(INVALID_NODE, INVALID_NODE, 1, 2),
         Exits(INVALID_NODE, INVALID_NODE, 2, 0),
         Exits(INVALID_NODE, INVALID_NODE, 0, 1)>>,
       SelfLoopFanIn
    >>

WorldOf(m) == [i \in 0..(Len(m) - 1) |-> NewNode(m[i + 1])]

NodeIds == DOMAIN nodes

AntIds == DOMAIN ants

Range(s) == {s[i] : i \in 1..Len(s)}

(***************************************************************************)
(* Vec::swap_remove(i) on a 1-based sequence                               *)
(***************************************************************************)
\* mutant: the last element is dropped whatever the index
SwapRemoveDropLast(s, i) == [k \in 1..(Len(s) - 1) |-> s[k]]

SwapRemove(s, i) ==
    LET last == s[Len(s)]
    IN  [k \in 1..(Len(s) - 1) |-> IF k = i THEN last ELSE s[k]]

(***************************************************************************)
(* World::choose_next_position (src/src/world/world.rs:64-104)             *)
(* draw is the value returned by rng.usize(..k).                           *)
(***************************************************************************)
\* mutant: an exit is counted whether or not its colony is alive
OptStepCountDead(w, s, n) ==
    IF n # INVALID_NODE
    THEN [opts |-> [s.opts EXCEPT ![s.k] = n], k |-> s.k + 1]
    ELSE s

OptStep(w, s, n) ==
    IF n # INVALID_NODE
    THEN [opts |-> [s.opts EXCEPT ![s.k] = n],
          k    |-> s.k + (IF IsAliveNode(w[n]) THEN 1 ELSE 0)]
    ELSE s

LiveOptions(w, ant_pos) ==
    LET nb == w[ant_pos].neighbors
        s0 == [opts |-> [i \in 0..3 |-> INVALID_NODE], k |-> 0]
        s1 == OptStep(w, s0, nb[1])
        s2 == OptStep(w, s1, nb[2])
        s3 == OptStep(w, s2, nb[3])
    IN  OptStep(w, s3, nb[4])

\* mutant: the draw is ignored and the first live option is taken
ChooseNextPositionFirst(w, ant_pos, draw) ==
    LET s == LiveOptions(w, ant_pos)
    IN  IF s.k = 0 THEN <<ant_pos, TRUE>> ELSE <<s.opts[0], FALSE>>

ChooseNextPosition(w, ant_pos, draw) ==
    LET s == LiveOptions(w, ant_pos)
    IN  IF s.k = 0 THEN <<ant_pos, TRUE>> ELSE <<s.opts[draw], FALSE>>

\* the values rng.usize(..k) can return for this call (one dummy when k = 0)
Draws(w, ant_pos) ==
    LET k == LiveOptions(w, ant_pos).k
    IN  IF k = 0 THEN {0} ELSE 0..(k - 1)

(***************************************************************************)
(* SimulationEngine::handle_initial_collisions (engine.rs:207-247)         *)
(***************************************************************************)
\* first/second-slot accumulation of the t=0 pass (engine.rs:217-229)
T0CountStep(o, nid, id) ==
    CASE o.count[nid] = 0 -> [o EXCEPT !.first[nid] = id, !.count[nid] = 1]
      [] o.count[nid] = 1 -> [o EXCEPT !.second[nid] = id, !.count[nid] = 2]
      [] OTHER            -> [o EXCEPT !.count[nid] = @ + 1]

\* for a in ants.iter() (engine.rs:214-231)
RECURSIVE T0Count(_, _, _)
T0Count(as, o, i) ==
    IF i \notin DOMAIN as THEN o
    ELSE T0Count(as,
                 IF IsAlive(as[i]) THEN T0CountStep(o, as[i].pos, as[i].id) ELSE o,
                 i + 1)

\* mutant: the t=0 pass destroys only from three occupants on
RECURSIVE T0DestroyAtThree(_, _, _)
T0DestroyAtThree(d, o, nid) ==
    IF nid \notin DOMAIN d.nodes THEN d
    ELSE IF o.count[nid] >= 3 /\ IsAliveNode(d.nodes[nid])
         THEN T0DestroyAtThree(
                  [d EXCEPT !.events = Append(@, <<nid, o.first[nid], o.second[nid]>>),
                            !.nodes[nid] = Destroy(@),
                            !.destroyed[nid] = TRUE],
                  o, nid + 1)
         ELSE T0DestroyAtThree(d, o, nid + 1)

\* mutant: the t=0 pass destroys every occupied colony
RECURSIVE T0DestroyAtOne(_, _, _)
T0DestroyAtOne(d, o, nid) ==
    IF nid \notin DOMAIN d.nodes THEN d
    ELSE IF o.count[nid] >= 1 /\ IsAliveNode(d.nodes[nid])
         THEN T0DestroyAtOne(
                  [d EXCEPT !.events = Append(@, <<nid, o.first[nid], o.second[nid]>>),
                            !.nodes[nid] = Destroy(@),
                            !.destroyed[nid] = TRUE],
                  o, nid + 1)
         ELSE T0DestroyAtOne(d, o, nid + 1)

\* for nid in 0..n (engine.rs:233-239); d = [nodes, events, destroyed]
RECURSIVE T0Destroy(_, _, _)
T0Destroy(d, o, nid) ==
    IF nid \notin DOMAIN d.nodes THEN d
    ELSE IF o.count[nid] >= 2 /\ IsAliveNode(d.nodes[nid])
         THEN T0Destroy(
                  [d EXCEPT !.events = Append(@, <<nid, o.first[nid], o.second[nid]>>),
                            !.nodes[nid] = Destroy(@),
                            !.destroyed[nid] = TRUE],
                  o, nid + 1)
         ELSE T0Destroy(d, o, nid + 1)

\* mutant: the agents standing on a colony destroyed at t=0 are left alive
T0KillNone(as, destroyed) == as

\* for a in ants.iter_mut() (engine.rs:241-246)
T0Kill(as, destroyed) ==
    [i \in DOMAIN as |->
        IF destroyed[as[i].pos]
        THEN SetTrapped(SetAlive(as[i], FALSE), FALSE)
        ELSE as[i]]

T0Result(w, as, ev) ==
    LET o0 == [count  |-> [c \in DOMAIN w |-> 0],
               first  |-> [c \in DOMAIN w |-> NO_ANT],
               second |-> [c \in DOMAIN w |-> NO_ANT]]
        o  == T0Count(as, o0, 0)
        d  == T0Destroy([nodes |-> w, events |-> ev,
                         destroyed |-> [c \in DOMAIN w |-> FALSE]], o, 0)
    IN  [nodes |-> d.nodes, events |-> d.events, ants |-> T0Kill(as, d.destroyed)]

(***************************************************************************)
(* run_simulation: set-up (engine.rs:28-59)                                *)
(***************************************************************************)
\* mutant: the move limit is left out of the filter
EligibleIgnoreLimit(a, max_moves) == IsAlive(a) /\ ~IsTrapped(a)

Eligible(a, max_moves) == IsAlive(a) /\ ~IsTrapped(a) /\ a.moves < max_moves

RECURSIVE InitialActive(_, _, _)
InitialActive(as, max_moves, i) ==
    IF i \notin DOMAIN as THEN <<>>
    ELSE (IF Eligible(as[i], max_moves) THEN <<i>> ELSE <<>>)
         \o InitialActive(as, max_moves, i + 1)

(***************************************************************************)
(* (1) Decide destinations (engine.rs:67-83); r[ai] is ai's random draw    *)
(***************************************************************************)
RECURSIVE DecideLoop(_, _, _)
DecideLoop(s, i, r) ==
    IF i > Len(s.active) THEN s
    ELSE LET ai == s.active[i]
             a  == ants[ai]
         IN  IF ~IsAlive(a) \/ a.moves >= args.max_moves \/ IsTrapped(a)
             THEN DecideLoop([s EXCEPT !.active = SwapRemove(@, i)], i, r)
             ELSE LET res == ChooseNextPosition(nodes, a.pos, r[ai])
                  IN  DecideLoop([s EXCEPT !.next_pos[ai] = res[1],
                                           !.trapped_now[ai] = res[2]],
                                 i + 1, r)

(***************************************************************************)
(* (2) Build occupancy (engine.rs:85-118)                                  *)
(* o = [gen, occ_count, occ_first, occ_second, touched_nodes]              *)
(***************************************************************************)
\* mutant: the scratch of a colony starts empty instead of from its stock
SeedScratchEmpty(o, nid) ==
    IF o.gen[nid] # cur_gen
    THEN [o EXCEPT !.gen[nid] = cur_gen,
                   !.occ_count[nid] = 0,
                   !.occ_first[nid] = NO_ANT,
                   !.occ_second[nid] = NO_ANT,
                   !.touched_nodes = Append(@, nid)]
    ELSE o

\* mutant: the scratch count starts from the stock but the two recorded ids
\* are not copied
SeedScratchCountOnly(o, nid) ==
    IF o.gen[nid] # cur_gen
    THEN [o EXCEPT !.gen[nid] = cur_gen,
                   !.occ_count[nid] = base_occ[nid],
                   !.occ_first[nid] = NO_ANT,
                   !.occ_second[nid] = NO_ANT,
                   !.touched_nodes = Append(@, nid)]
    ELSE o

\* engine.rs:93-99
SeedScratch(o, nid) ==
    IF o.gen[nid] # cur_gen
    THEN [o EXCEPT !.gen[nid] = cur_gen,
                   !.occ_count[nid] = base_occ[nid],
                   !.occ_first[nid] = base_first[nid],
                   !.occ_second[nid] = base_second[nid],
                   !.touched_nodes = Append(@, nid)]
    ELSE o

\* mutant: an arrival beyond the second replaces the second recorded id
AddOccupantOverwriteSecond(o, nid, id) ==
    CASE o.occ_count[nid] = 0 ->
            [o EXCEPT !.occ_first[nid] = id, !.occ_count[nid] = 1]
      [] o.occ_count[nid] = 1 ->
            IF o.occ_first[nid] = NO_ANT
            THEN [o EXCEPT !.occ_first[nid] = id, !.occ_count[nid] = 2]
            ELSE [o EXCEPT !.occ_second[nid] = id, !.occ_count[nid] = 2]
      [] OTHER ->
            [o EXCEPT !.occ_second[nid] = id, !.occ_count[nid] = @ + 1]

\* engine.rs:101-117
AddOccupant(o, nid, id) ==
    CASE o.occ_count[nid] = 0 ->
            [o EXCEPT !.occ_first[nid] = id, !.occ_count[nid] = 1]
      [] o.occ_count[nid] = 1 ->
            IF o.occ_first[nid] = NO_ANT
            THEN [o EXCEPT !.occ_first[nid] = id, !.occ_count[nid] = 2]
            ELSE [o EXCEPT !.occ_second[nid] = id, !.occ_count[nid] = 2]
      [] OTHER ->
            [o EXCEPT !.occ_count[nid] = @ + 1]

\* mutant: an agent whose destination is its own colony is not counted
RECURSIVE OccupancyLoopSkipSelf(_, _)
OccupancyLoopSkipSelf(o, i) ==
    IF i > Len(active) THEN o
    ELSE LET ai == active[i]
             a  == ants[ai]
         IN  IF ~IsAlive(a) \/ next_pos[ai] = a.pos THEN OccupancyLoopSkipSelf(o, i + 1)
             ELSE OccupancyLoopSkipSelf(AddOccupant(SeedScratch(o, next_pos[ai]),
                                            next_pos[ai], a.id),
                                i + 1)

\* mutant: a moving agent is counted at the colony it leaves as well
RECURSIVE OccupancyLoopBothEnds(_, _)
OccupancyLoopBothEnds(o, i) ==
    IF i > Len(active) THEN o
    ELSE LET ai == active[i]
             a  == ants[ai]
             o1 == AddOccupant(SeedScratch(o, next_pos[ai]), next_pos[ai], a.id)
         IN  IF ~IsAlive(a) THEN OccupancyLoopBothEnds(o, i + 1)
             ELSE IF next_pos[ai] = a.pos THEN OccupancyLoopBothEnds(o1, i + 1)
             ELSE OccupancyLoopBothEnds(
                      AddOccupant(SeedScratch(o1, a.pos), a.pos, a.id), i + 1)

RECURSIVE OccupancyLoop(_, _)
OccupancyLoop(o, i) ==
    IF i > Len(active) THEN o
    ELSE LET ai == active[i]
             a  == ants[ai]
         IN  IF ~IsAlive(a) THEN OccupancyLoop(o, i + 1)
             ELSE OccupancyLoop(AddOccupant(SeedScratch(o, next_pos[ai]),
                                            next_pos[ai], a.id),
                                i + 1)

(***************************************************************************)
(* (3) Destroy collided colonies (engine.rs:120-129)                       *)
(* d = [nodes, base_occ, base_first, base_second, events]                  *)
(***************************************************************************)
\* mutant: a colony is destroyed only from three occupants on
RECURSIVE DestroyLoopAtThree(_, _)
DestroyLoopAtThree(d, i) ==
    IF i > Len(touched_nodes) THEN d
    ELSE LET nid == touched_nodes[i]
         IN  IF occ_count[nid] >= 3 /\ IsAliveNode(d.nodes[nid])
             THEN DestroyLoopAtThree(
                      [d EXCEPT !.events = Append(@, <<nid, occ_first[nid], occ_second[nid]>>),
                                !.nodes[nid] = Destroy(@),
                                !.base_occ[nid] = 0,
                                !.base_first[nid] = NO_ANT,
                                !.base_second[nid] = NO_ANT],
                      i + 1)
             ELSE DestroyLoopAtThree(d, i + 1)

\* mutant: the collision is logged but the colony is not destroyed
RECURSIVE DestroyLoopLogOnly(_, _)
DestroyLoopLogOnly(d, i) ==
    IF i > Len(touched_nodes) THEN d
    ELSE LET nid == touched_nodes[i]
         IN  IF occ_count[nid] >= 2 /\ IsAliveNode(d.nodes[nid])
             THEN DestroyLoopLogOnly(
                      [d EXCEPT !.events = Append(@, <<nid, occ_first[nid], occ_second[nid]>>),
                                !.base_occ[nid] = 0,
                                !.base_first[nid] = NO_ANT,
                                !.base_second[nid] = NO_ANT],
                      i + 1)
             ELSE DestroyLoopLogOnly(d, i + 1)

\* mutant: a colony is destroyed from one occupant on
RECURSIVE DestroyLoopAtOne(_, _)
DestroyLoopAtOne(d, i) ==
    IF i > Len(touched_nodes) THEN d
    ELSE LET nid == touched_nodes[i]
         IN  IF occ_count[nid] >= 1 /\ IsAliveNode(d.nodes[nid])
             THEN DestroyLoopAtOne(
                      [d EXCEPT !.events = Append(@, <<nid, occ_first[nid], occ_second[nid]>>),
                                !.nodes[nid] = Destroy(@),
                                !.base_occ[nid] = 0,
                                !.base_first[nid] = NO_ANT,
                                !.base_second[nid] = NO_ANT],
                      i + 1)
             ELSE DestroyLoopAtOne(d, i + 1)

\* mutant: only this tick's arrivals are counted against the threshold
RECURSIVE DestroyLoopArrivalsOnly(_, _)
DestroyLoopArrivalsOnly(d, i) ==
    IF i > Len(touched_nodes) THEN d
    ELSE LET nid == touched_nodes[i]
         IN  IF occ_count[nid] - d.base_occ[nid] >= 2 /\ IsAliveNode(d.nodes[nid])
             THEN DestroyLoopArrivalsOnly(
                      [d EXCEPT !.events = Append(@, <<nid, occ_first[nid], occ_second[nid]>>),
                                !.nodes[nid] = Destroy(@),
                                !.base_occ[nid] = 0,
                                !.base_first[nid] = NO_ANT,
                                !.base_second[nid] = NO_ANT],
                      i + 1)
             ELSE DestroyLoopArrivalsOnly(d, i + 1)

\* mutant: the colony is destroyed but its stationary stock is left as it was
RECURSIVE DestroyLoopKeepStock(_, _)
DestroyLoopKeepStock(d, i) ==
    IF i > Len(touched_nodes) THEN d
    ELSE LET nid == touched_nodes[i]
         IN  IF occ_count[nid] >= 2 /\ IsAliveNode(d.nodes[nid])
             THEN DestroyLoopKeepStock(
                      [d EXCEPT !.events = Append(@, <<nid, occ_first[nid], occ_second[nid]>>),
                                !.nodes[nid] = Destroy(@)],
                      i + 1)
             ELSE DestroyLoopKeepStock(d, i + 1)

\* mutant: step 3 leaves colonies that hold stationary stock to step 5
RECURSIVE DestroyLoopSkipStocked(_, _)
DestroyLoopSkipStocked(d, i) ==
    IF i > Len(touched_nodes) THEN d
    ELSE LET nid == touched_nodes[i]
         IN  IF occ_count[nid] >= 2 /\ d.base_occ[nid] = 0 /\ IsAliveNode(d.nodes[nid])
             THEN DestroyLoopSkipStocked(
                      [d EXCEPT !.events = Append(@, <<nid, occ_first[nid], occ_second[nid]>>),
                                !.nodes[nid] = Destroy(@),
                                !.base_occ[nid] = 0,
                                !.base_first[nid] = NO_ANT,
                                !.base_second[nid] = NO_ANT],
                      i + 1)
             ELSE DestroyLoopSkipStocked(d, i + 1)

RECURSIVE DestroyLoop(_, _)
DestroyLoop(d, i) ==
    IF i > Len(touched_nodes) THEN d
    ELSE LET nid == touched_nodes[i]
         IN  IF occ_count[nid] >= 2 /\ IsAliveNode(d.nodes[nid])
             THEN DestroyLoop(
                      [d EXCEPT !.events = Append(@, <<nid, occ_first[nid], occ_second[nid]>>),
                                !.nodes[nid] = Destroy(@),
                                !.base_occ[nid] = 0,
                                !.base_first[nid] = NO_ANT,
                                !.base_second[nid] = NO_ANT],
                      i + 1)
             ELSE DestroyLoop(d, i + 1)

(***************************************************************************)
(* (4) Commit ant state + register new stationaries (engine.rs:131-183)    *)
(* c = [ants, active, base_occ, base_first, base_second, base_touched]     *)
(***************************************************************************)
\* mutant: the first stationary agent of a colony is recorded in the second slot
RegisterStationarySecondSlot(c, nid, id) ==
    LET c1 == IF c.base_occ[nid] <= 1 THEN [c EXCEPT !.base_second[nid] = id] ELSE c
        c2 == IF c.base_occ[nid] < 2
              THEN [c1 EXCEPT !.base_touched = Append(@, nid)]
              ELSE c1
    IN  [c2 EXCEPT !.base_occ[nid] = @ + 1]

\* engine.rs:155-163 and 169-177
RegisterStationary(c, nid, id) ==
    LET c1 == CASE c.base_occ[nid] = 0 -> [c EXCEPT !.base_first[nid] = id]
                [] c.base_occ[nid] = 1 -> [c EXCEPT !.base_second[nid] = id]
                [] OTHER               -> c
        c2 == IF c.base_occ[nid] < 2
              THEN [c1 EXCEPT !.base_touched = Append(@, nid)]
              ELSE c1
    IN  [c2 EXCEPT !.base_occ[nid] = @ + 1]

RECURSIVE CommitLoop(_, _)
CommitLoop(c, j) ==
    IF j > Len(c.active) THEN c
    ELSE LET ai         == c.active[j]
             nid        == next_pos[ai]
             node_alive == IsAliveNode(nodes[nid])
             a          == c.ants[ai]
         IN  IF ~IsAlive(a)
             THEN CommitLoop([c EXCEPT !.active = SwapRemove(@, j)], j)
             ELSE IF ~node_alive
             THEN CommitLoop([c EXCEPT !.ants[ai] = SetTrapped(SetAlive(a, FALSE), FALSE),
                                       !.active = SwapRemove(@, j)], j)
             ELSE IF ~trapped_now[ai] /\ nid # a.pos
             THEN LET m == MoveTo(a, nid)
                  IN  IF HasMaxMoves(m, args.max_moves)
                      THEN CommitLoop(
                               RegisterStationary(
                                   [c EXCEPT !.ants[ai] = m,
                                             !.active = SwapRemove(@, j)],
                                   nid, m.id),
                               j)
                      ELSE CommitLoop([c EXCEPT !.ants[ai] = m], j + 1)
             ELSE IF trapped_now[ai] /\ ~IsTrapped(a)
             THEN CommitLoop(
                      RegisterStationary(
                          [c EXCEPT !.ants[ai] = SetTrapped(a, TRUE),
                                    !.active = SwapRemove(@, j)],
                          nid, a.id),
                      j)
             ELSE CommitLoop(c, j + 1)

\* mutant: the commit first marks every ant that stands on a live colony
\* as alive
CommitReviveOnLiveColony(c) ==
    CommitLoop([c EXCEPT !.ants = [i \in DOMAIN c.ants |->
                   IF IsAliveNode(nodes[c.ants[i].pos])
                   THEN SetAlive(c.ants[i], TRUE)
                   ELSE c.ants[i]]], 1)

\* mutant: after the commit loop, every ant standing on a destroyed colony
\* is killed the way the t=0 pass does it (engine.rs:241-246)
CommitKillOnDestroyed(c) ==
    LET r == CommitLoop(c, 1)
    IN  [r EXCEPT !.ants = T0Kill(r.ants, [n \in DOMAIN nodes |-> ~IsAliveNode(nodes[n])])]

\* mutant: after the commit loop, every ant standing on a destroyed colony
\* loses its alive bit only
CommitClearAliveOnDestroyed(c) ==
    LET r == CommitLoop(c, 1)
    IN  [r EXCEPT !.ants = [i \in DOMAIN r.ants |->
                   IF IsAliveNode(nodes[r.ants[i].pos])
                   THEN r.ants[i]
                   ELSE SetAlive(r.ants[i], FALSE)]]

\* mutant: an ant whose destination was destroyed is killed after it has
\* been moved there
CommitEnterDestroyed(c) ==
    LET r == CommitLoop(c, 1)
    IN  [r EXCEPT !.ants = [i \in DOMAIN r.ants |->
                   IF /\ i \in Range(c.active)
                      /\ IsAlive(c.ants[i])
                      /\ ~IsAliveNode(nodes[next_pos[i]])
                   THEN [r.ants[i] EXCEPT !.pos = next_pos[i]]
                   ELSE r.ants[i]]]

\* mutant: a step through an exit that leads back to the same colony is
\* counted as a move
CommitCountSelfMoves(c) ==
    LET r == CommitLoop(c, 1)
    IN  [r EXCEPT !.ants = [i \in DOMAIN r.ants |->
                   IF /\ i \in Range(c.active)
                      /\ IsAlive(c.ants[i])
                      /\ IsAliveNode(nodes[next_pos[i]])
                      /\ ~trapped_now[i]
                      /\ next_pos[i] = c.ants[i].pos
                   THEN [r.ants[i] EXCEPT !.moves = @ + 1]
                   ELSE r.ants[i]]]

\* mutant: the index also advances after a swap_remove, so the element
\* swapped into the slot is skipped
RECURSIVE CommitLoopSkipSwapped(_, _)
CommitLoopSkipSwapped(c, j) ==
    IF j > Len(c.active) THEN c
    ELSE LET ai         == c.active[j]
             nid        == next_pos[ai]
             node_alive == IsAliveNode(nodes[nid])
             a          == c.ants[ai]
         IN  IF ~IsAlive(a)
             THEN CommitLoopSkipSwapped([c EXCEPT !.active = SwapRemove(@, j)], j + 1)
             ELSE IF ~node_alive
             THEN CommitLoopSkipSwapped([c EXCEPT !.ants[ai] = SetTrapped(SetAlive(a, FALSE), FALSE),
                                       !.active = SwapRemove(@, j)], j + 1)
             ELSE IF ~trapped_now[ai] /\ nid # a.pos
             THEN LET m == MoveTo(a, nid)
                  IN  IF HasMaxMoves(m, args.max_moves)
                      THEN CommitLoopSkipSwapped(
                               RegisterStationary(
                                   [c EXCEPT !.ants[ai] = m,
                                             !.active = SwapRemove(@, j)],
                                   nid, m.id),
                               j + 1)
                      ELSE CommitLoopSkipSwapped([c EXCEPT !.ants[ai] = m], j + 1)
             ELSE IF trapped_now[ai] /\ ~IsTrapped(a)
             THEN CommitLoopSkipSwapped(
                      RegisterStationary(
                          [c EXCEPT !.ants[ai] = SetTrapped(a, TRUE),
                                    !.active = SwapRemove(@, j)],
                          nid, a.id),
                      j + 1)
             ELSE CommitLoopSkipSwapped(c, j + 1)

CommitSkipSwapped(c) == CommitLoopSkipSwapped(c, 1)

CommitResult(c) == CommitLoop(c, 1)

(***************************************************************************)
(* (5) Pure-stationary destruction (engine.rs:185-194)                     *)
(***************************************************************************)
RECURSIVE StationaryLoop(_, _)
StationaryLoop(d, i) ==
    IF i > Len(base_touched) THEN d
    ELSE LET nid == base_touched[i]
         IN  IF d.base_occ[nid] >= 2 /\ IsAliveNode(d.nodes[nid])
             THEN StationaryLoop(
                      [d EXCEPT !.events = Append(@, <<nid, d.base_first[nid], d.base_second[nid]>>),
                                !.nodes[nid] = Destroy(@),
                                !.base_occ[nid] = 0,
                                !.base_first[nid] = NO_ANT,
                                !.base_second[nid] = NO_ANT],
                      i + 1)
             ELSE StationaryLoop(d, i + 1)

\* World::count_survivors (world.rs:131-133)
CountSurvivors(w) == Cardinality({c \in DOMAIN w : IsAliveNode(w[c])})

\* mutant: the count of alive ants is one over (the break test is strict)
AliveAntsOneOver == Cardinality({i \in AntIds : IsAlive(ants[i])}) + 1

\* mutant: the count of alive ants is one short
AliveAntsLessOne == Cardinality({i \in AntIds : IsAlive(ants[i])}) - 1

\* engine.rs:197
AliveAnts == Cardinality({i \in AntIds : IsAlive(ants[i])})

(***************************************************************************)
(* State machine                                                           *)
(***************************************************************************)
EmptySnap == [alive |-> <<>>, base_occ |-> <<>>, ants |-> <<>>, active |-> <<>>,
              draws |-> <<>>]

NoHarness == [pos |-> 0, out |-> <<0, FALSE>>]

NoSkip == [skipped |-> FALSE, alive |-> {}]

NoOrig == [pc |-> "none"]

NoDetector == [base_occupancy |-> <<>>, base_first |-> <<>>, base_second |-> <<>>,
               base_touched |-> <<>>, added |-> {}, calls |-> 0]

NoParse == [lines |-> <<>>, line |-> 0, names |-> <<>>, name_to_id |-> <<>>,
            edges |-> <<>>, next |-> 0]

Init ==
    /\ \E g \in 1..Len(Maps) : nodes = WorldOf(Maps[g])
    /\ \E n \in 1..MaxAnts, mm \in 0..MaxMoveLimit :
           args = [ants |-> n, max_moves |-> mm]
    /\ ants = <<>>
    /\ active = <<>>
    /\ gen = <<>> /\ occ_count = <<>> /\ occ_first = <<>> /\ occ_second = <<>>
    /\ cur_gen = 1
    /\ gen_mod = U32_MODULUS
    /\ base_occ = <<>> /\ base_first = <<>> /\ base_second = <<>>
    /\ touched_nodes = <<>> /\ base_touched = <<>>
    /\ next_pos = <<>> /\ trapped_now = <<>>
    /\ pc = "create"
    /\ events = <<>>
    /\ ticks = 0
    /\ snap = EmptySnap
    /\ cn = NoHarness
    /\ early = NoSkip
    /\ parser = NoParse
    /\ detector = NoDetector
    /\ orig = NoOrig

\* World::create_ants (world.rs:41-55): every ant at a random alive colony
CreateAnts ==
    /\ pc = "create"
    /\ LET alive_nodes == {i \in NodeIds : IsAliveNode(nodes[i])}
       IN  \E place \in [0..(args.ants - 1) -> alive_nodes] :
               ants' = [i \in 0..(args.ants - 1) |-> NewAnt(i, place[i])]
    /\ pc' = "t0"
    /\ UNCHANGED <<nodes, args, active, gen, occ_count, occ_first, occ_second,
                   cur_gen, gen_mod, base_occ, base_first, base_second,
                   touched_nodes, base_touched, next_pos, trapped_now, events,
                   ticks, snap, cn, early, parser, detector, orig>>

\* engine.rs:26
HandleInitialCollisions ==
    /\ pc = "t0"
    /\ LET r == T0Result(nodes, ants, events)
       IN  /\ nodes' = r.nodes
           /\ ants' = r.ants
           /\ events' = r.events
    /\ pc' = "setup"
    /\ UNCHANGED <<args, active, gen, occ_count, occ_first, occ_second,
                   cur_gen, gen_mod, base_occ, base_first, base_second,
                   touched_nodes, base_touched, next_pos, trapped_now,
                   ticks, snap, cn, early, parser, detector, orig>>

\* engine.rs:28-59
BeginSimulation ==
    /\ pc = "setup"
    /\ active' = InitialActive(ants, args.max_moves, 0)
    /\ gen' = [c \in NodeIds |-> 0]
    /\ occ_count' = [c \in NodeIds |-> 0]
    /\ occ_first' = [c \in NodeIds |-> NO_ANT]
    /\ occ_second' = [c \in NodeIds |-> NO_ANT]
    /\ cur_gen' = 1
    /\ base_occ' = [c \in NodeIds |-> 0]
    /\ base_first' = [c \in NodeIds |-> NO_ANT]
    /\ base_second' = [c \in NodeIds |-> NO_ANT]
    /\ touched_nodes' = <<>>
    /\ base_touched' = <<>>
    /\ next_pos' = [i \in AntIds |-> ants[i].pos]
    /\ trapped_now' = [i \in AntIds |-> FALSE]
    /\ pc' = "loop"
    /\ UNCHANGED <<nodes, ants, args, gen_mod, events, ticks, snap, cn, early, parser, detector, orig>>

\* engine.rs:62, loop guard false
LoopExit ==
    /\ pc = "loop"
    /\ active = <<>>
    /\ pc' = "done"
    /\ UNCHANGED <<nodes, ants, args, active, gen, occ_count, occ_first,
                   occ_second, cur_gen, gen_mod, base_occ, base_first,
                   base_second, touched_nodes, base_touched, next_pos,
                   trapped_now, events, ticks, snap, cn, early, parser, detector, orig>>

\* mutant: the tick starts without advancing the generation counter
BeginTickSameGen ==
    /\ pc = "loop"
    /\ active # <<>>
    /\ ticks < MaxTicks
    /\ cur_gen' = cur_gen
    /\ touched_nodes' = <<>>
    /\ base_touched' = <<>>
    /\ ticks' = ticks + 1
    /\ snap' = [alive    |-> [c \in NodeIds |-> IsAliveNode(nodes[c])],
                base_occ |-> base_occ,
                ants     |-> ants,
                active   |-> active,
                draws    |-> <<>>]
    /\ pc' = "decide"
    /\ UNCHANGED <<nodes, ants, args, active, gen, occ_count, occ_first,
                   occ_second, gen_mod, base_occ, base_first, base_second,
                   next_pos, trapped_now, events, cn, early, parser, detector, orig>>

\* engine.rs:62-65, loop guard true
BeginTick ==
    /\ pc = "loop"
    /\ active # <<>>
    /\ ticks < MaxTicks
    /\ cur_gen' = (cur_gen + 1) % gen_mod
    /\ touched_nodes' = <<>>
    /\ base_touched' = <<>>
    /\ ticks' = ticks + 1
    /\ snap' = [alive    |-> [c \in NodeIds |-> IsAliveNode(nodes[c])],
                base_occ |-> base_occ,
                ants     |-> ants,
                active   |-> active,
                draws    |-> <<>>]
    /\ pc' = "decide"
    /\ UNCHANGED <<nodes, ants, args, active, gen, occ_count, occ_first,
                   occ_second, gen_mod, base_occ, base_first, base_second,
                   next_pos, trapped_now, events, cn, early, parser, detector, orig>>

\* engine.rs:67-83
Decide ==
    /\ pc = "decide"
    /\ \E r \in [AntIds -> 0..3] :
          /\ \A ai \in AntIds :
                r[ai] \in (IF ai \in Range(active) /\ Eligible(ants[ai], args.max_moves)
                           THEN Draws(nodes, ants[ai].pos)
                           ELSE {0})
          /\ LET s == DecideLoop([active |-> active, next_pos |-> next_pos,
                                  trapped_now |-> trapped_now], 1, r)
             IN  /\ active' = s.active
                 /\ next_pos' = s.next_pos
                 /\ trapped_now' = s.trapped_now
                 /\ snap' = [snap EXCEPT !.active = s.active, !.draws = r]
                 /\ pc' = IF s.active = <<>> THEN "done" ELSE "occupancy"
    /\ UNCHANGED <<nodes, ants, args, gen, occ_count, occ_first, occ_second,
                   cur_gen, gen_mod, base_occ, base_first, base_second,
                   touched_nodes, base_touched, events, ticks, cn, early, parser, detector, orig>>

\* engine.rs:85-118
BuildOccupancy ==
    /\ pc = "occupancy"
    /\ LET o == OccupancyLoop([gen |-> gen, occ_count |-> occ_count,
                               occ_first |-> occ_first, occ_second |-> occ_second,
                               touched_nodes |-> touched_nodes], 1)
       IN  /\ gen' = o.gen
           /\ occ_count' = o.occ_count
           /\ occ_first' = o.occ_first
           /\ occ_second' = o.occ_second
           /\ touched_nodes' = o.touched_nodes
    /\ pc' = "destroy"
    /\ UNCHANGED <<nodes, ants, args, active, cur_gen, gen_mod, base_occ,
                   base_first, base_second, base_touched, next_pos,
                   trapped_now, events, ticks, snap, cn, early, parser, detector, orig>>

\* engine.rs:120-129
DestroyCollided ==
    /\ pc = "destroy"
    /\ LET d == DestroyLoop([nodes |-> nodes, base_occ |-> base_occ,
                             base_first |-> base_first, base_second |-> base_second,
                             events |-> events], 1)
       IN  /\ nodes' = d.nodes
           /\ base_occ' = d.base_occ
           /\ base_first' = d.base_first
           /\ base_second' = d.base_second
           /\ events' = d.events
    /\ pc' = "commit"
    /\ UNCHANGED <<ants, args, active, gen, occ_count, occ_first, occ_second,
                   cur_gen, gen_mod, touched_nodes, base_touched, next_pos,
                   trapped_now, ticks, snap, cn, early, parser, detector, orig>>

\* mutant: the commit runs in the place of the arrival resolution
CommitBeforeDestroy ==
    /\ pc = "destroy"
    /\ LET c == CommitResult([ants |-> ants, active |-> active,
                              base_occ |-> base_occ, base_first |-> base_first,
                              base_second |-> base_second,
                              base_touched |-> base_touched])
       IN  /\ ants' = c.ants
           /\ active' = c.active
           /\ base_occ' = c.base_occ
           /\ base_first' = c.base_first
           /\ base_second' = c.base_second
           /\ base_touched' = c.base_touched
    /\ pc' = "stationary"
    /\ UNCHANGED <<nodes, args, gen, occ_count, occ_first, occ_second, cur_gen,
                   gen_mod, touched_nodes, next_pos, trapped_now, events,
                   ticks, snap, cn, early, parser, detector, orig>>

\* engine.rs:131-183
Commit ==
    /\ pc = "commit"
    /\ LET c == CommitResult([ants |-> ants, active |-> active,
                              base_occ |-> base_occ, base_first |-> base_first,
                              base_second |-> base_second,
                              base_touched |-> base_touched])
       IN  /\ ants' = c.ants
           /\ active' = c.active
           /\ base_occ' = c.base_occ
           /\ base_first' = c.base_first
           /\ base_second' = c.base_second
           /\ base_touched' = c.base_touched
    /\ pc' = "stationary"
    /\ UNCHANGED <<nodes, args, gen, occ_count, occ_first, occ_second, cur_gen,
                   gen_mod, touched_nodes, next_pos, trapped_now, events,
                   ticks, snap, cn, early, parser, detector, orig>>

\* engine.rs:185-194
StationaryDestroy ==
    /\ pc = "stationary"
    /\ LET d == StationaryLoop([nodes |-> nodes, base_occ |-> base_occ,
                                base_first |-> base_first, base_second |-> base_second,
                                events |-> events], 1)
       IN  /\ nodes' = d.nodes
           /\ base_occ' = d.base_occ
           /\ base_first' = d.base_first
           /\ base_second' = d.base_second
           /\ events' = d.events
    /\ pc' = "exit_check"
    /\ UNCHANGED <<ants, args, active, gen, occ_count, occ_first, occ_second,
                   cur_gen, gen_mod, touched_nodes, base_touched, next_pos,
                   trapped_now, ticks, snap, cn, early, parser, detector, orig>>

\* engine.rs:196-200
EarlyExit ==
    /\ pc = "exit_check"
    /\ pc' = IF AliveAnts <= 1 THEN "done" ELSE "loop"
    /\ UNCHANGED <<nodes, ants, args, active, gen, occ_count, occ_first,
                   occ_second, cur_gen, gen_mod, base_occ, base_first,
                   base_second, touched_nodes, base_touched, next_pos,
                   trapped_now, events, ticks, snap, cn, early, parser, detector, orig>>

Next ==
    \/ CreateAnts
    \/ HandleInitialCollisions
    \/ BeginSimulation
    \/ LoopExit
    \/ BeginTick
    \/ Decide
    \/ BuildOccupancy
    \/ DestroyCollided
    \/ Commit
    \/ StationaryDestroy
    \/ EarlyExit

Spec == Init /\ [][Next]_vars

(***************************************************************************)
(* The run with the break of step 6 left out: the loop goes on until the   *)
(* active list is empty (engine.rs:62, 81-83). `early` remembers the       *)
(* colonies alive where run_simulation itself would have stopped.          *)
(***************************************************************************)
ContinueLoop ==
    /\ pc = "exit_check"
    /\ AliveAnts <= 1
    /\ pc' = "loop"
    /\ early' = IF early.skipped THEN early
                ELSE [skipped |-> TRUE,
                      alive   |-> {c \in NodeIds : IsAliveNode(nodes[c])}]
    /\ UNCHANGED <<nodes, ants, args, active, gen, occ_count, occ_first,
                   occ_second, cur_gen, gen_mod, base_occ, base_first,
                   base_second, touched_nodes, base_touched, next_pos,
                   trapped_now, events, ticks, snap, cn, parser, detector, orig>>

NextContinue ==
    \/ Next
    \/ ContinueLoop

SpecContinue == Init /\ [][NextContinue]_vars

(***************************************************************************)
(* choose_next_position on its own: every neighbour array of one live      *)
(* colony in a three-colony world, every liveness of the other colonies,   *)
(* every draw.                                                             *)
(***************************************************************************)
ChooseColonies == 0..2

InitChoose ==
    /\ \E p \in ChooseColonies,
          nb \in [1..4 -> ChooseColonies \cup {INVALID_NODE}],
          al \in [ChooseColonies -> BOOLEAN] :
          /\ al[p]
          /\ nodes = [i \in ChooseColonies |->
                         [neighbors |-> IF i = p THEN nb ELSE NoExits,
                          alive     |-> al[i]]]
          /\ cn = [pos |-> p, out |-> <<p, FALSE>>]
    /\ args = [ants |-> 1, max_moves |-> 1]
    /\ ants = <<>>
    /\ active = <<>>
    /\ gen = <<>> /\ occ_count = <<>> /\ occ_first = <<>> /\ occ_second = <<>>
    /\ cur_gen = 1
    /\ gen_mod = U32_MODULUS
    /\ base_occ = <<>> /\ base_first = <<>> /\ base_second = <<>>
    /\ touched_nodes = <<>> /\ base_touched = <<>>
    /\ next_pos = <<>> /\ trapped_now = <<>>
    /\ pc = "choose"
    /\ events = <<>>
    /\ ticks = 0
    /\ snap = EmptySnap
    /\ early = NoSkip
    /\ parser = NoParse
    /\ detector = NoDetector
    /\ orig = NoOrig

ChooseCall ==
    /\ pc = "choose"
    /\ \E d \in Draws(nodes, cn.pos) :
           cn' = [cn EXCEPT !.out = ChooseNextPosition(nodes, cn.pos, d)]
    /\ pc' = "chosen"
    /\ UNCHANGED <<nodes, ants, args, active, gen, occ_count, occ_first,
                   occ_second, cur_gen, gen_mod, base_occ, base_first,
                   base_second, touched_nodes, base_touched, next_pos,
                   trapped_now, events, ticks, snap, early, parser, detector, orig>>

NextChoose == ChooseCall

SpecChoose == InitChoose /\ [][NextChoose]_vars

(***************************************************************************)
(* The run with a generation counter of GenWidth bits: cur_gen and the     *)
(* stamps are u32 in engine.rs:42-46, wrapping_add at engine.rs:63; here   *)
(* the arithmetic is mod 2^GenWidth so the wrap falls inside the run.      *)
(***************************************************************************)
InitWrap ==
    /\ \E g \in 1..Len(Maps) : nodes = WorldOf(Maps[g])
    /\ \E n \in 1..MaxAnts, mm \in 0..MaxMoveLimit :
           args = [ants |-> n, max_moves |-> mm]
    /\ ants = <<>>
    /\ active = <<>>
    /\ gen = <<>> /\ occ_count = <<>> /\ occ_first = <<>> /\ occ_second = <<>>
    /\ cur_gen = 1
    /\ gen_mod = 2 ^ GenWidth
    /\ base_occ = <<>> /\ base_first = <<>> /\ base_second = <<>>
    /\ touched_nodes = <<>> /\ base_touched = <<>>
    /\ next_pos = <<>> /\ trapped_now = <<>>
    /\ pc = "create"
    /\ events = <<>>
    /\ ticks = 0
    /\ snap = EmptySnap
    /\ cn = NoHarness
    /\ early = NoSkip
    /\ parser = NoParse
    /\ detector = NoDetector
    /\ orig = NoOrig

SpecWrap == InitWrap /\ [][Next]_vars

(***************************************************************************)
(* The run with the active list put in any other order before the two      *)
(* loops that iterate it (engine.rs:86 and 133).                           *)
(***************************************************************************)
Shuffle ==
    /\ pc \in {"occupancy", "commit"}
    /\ \E f \in Permutations(1..Len(active)) :
          /\ active' = [k \in 1..Len(active) |-> active[f[k]]]
          /\ active' # active
    /\ UNCHANGED <<nodes, ants, args, gen, occ_count, occ_first, occ_second,
                   cur_gen, gen_mod, base_occ, base_first, base_second,
                   touched_nodes, base_touched, next_pos, trapped_now, pc,
                   events, ticks, snap, cn, early, parser, detector, orig>>

NextShuffle ==
    \/ Next
    \/ Shuffle

SpecShuffle == Init /\ [][NextShuffle]_vars

(***************************************************************************)
(* World::create_ants on its own (world.rs:41-55): every map of the        *)
(* catalogue and the map without colonies, every liveness of the colonies, *)
(* every count, every sequence of draws. rng.usize(..0) panics.            *)
(***************************************************************************)
\* mutant: the list holds every colony, alive or not
RECURSIVE AliveNodeListAll(_, _)
AliveNodeListAll(w, i) ==
    IF i \notin DOMAIN w THEN <<>>
    ELSE <<i>> \o AliveNodeListAll(w, i + 1)

\* alive_nodes (world.rs:42-47): ids of the alive colonies in index order
RECURSIVE AliveNodeList(_, _)
AliveNodeList(w, i) ==
    IF i \notin DOMAIN w THEN <<>>
    ELSE (IF IsAliveNode(w[i]) THEN <<i>> ELSE <<>>) \o AliveNodeList(w, i + 1)

\* world.rs:49-54; draw[i] is the value of rng.usize(..alive_nodes.len())
CreateAntsFrom(w, count, draw) ==
    LET alive_nodes == AliveNodeList(w, 0)
    IN  [i \in 0..(count - 1) |-> NewAnt(i, alive_nodes[draw[i] + 1])]

InitCreate ==
    /\ \E g \in 0..Len(Maps) :
          LET w == IF g = 0 THEN <<>> ELSE WorldOf(Maps[g])
          IN  \E al \in [DOMAIN w -> BOOLEAN] :
                  nodes = [c \in DOMAIN w |-> [w[c] EXCEPT !.alive = al[c]]]
    /\ \E n \in 0..MaxAnts : args = [ants |-> n, max_moves |-> 0]
    /\ ants = <<>>
    /\ active = <<>>
    /\ gen = <<>> /\ occ_count = <<>> /\ occ_first = <<>> /\ occ_second = <<>>
    /\ cur_gen = 1
    /\ gen_mod = U32_MODULUS
    /\ base_occ = <<>> /\ base_first = <<>> /\ base_second = <<>>
    /\ touched_nodes = <<>> /\ base_touched = <<>>
    /\ next_pos = <<>> /\ trapped_now = <<>>
    /\ pc = "create_call"
    /\ events = <<>>
    /\ ticks = 0
    /\ snap = EmptySnap
    /\ cn = NoHarness
    /\ early = NoSkip
    /\ parser = NoParse
    /\ detector = NoDetector
    /\ orig = NoOrig

CreateCall ==
    /\ pc = "create_call"
    /\ LET len == Len(AliveNodeList(nodes, 0))
       IN  IF args.ants > 0 /\ len = 0
           THEN /\ ants' = <<>>
                /\ pc' = "panicked"
           ELSE /\ \E draw \in [0..(args.ants - 1) -> 0..(len - 1)] :
                       ants' = CreateAntsFrom(nodes, args.ants, draw)
                /\ pc' = "created"
    /\ UNCHANGED <<nodes, args, active, gen, occ_count, occ_first, occ_second,
                   cur_gen, gen_mod, base_occ, base_first, base_second,
                   touched_nodes, base_touched, next_pos, trapped_now, events,
                   ticks, snap, cn, early, parser, detector, orig>>

NextCreate == CreateCall

SpecCreate == InitCreate /\ [][NextCreate]_vars

(***************************************************************************)
(* parse_world_from_str (src/src/world/parser.rs:66-110). The text is      *)
(* taken after lines(), trim() and split_whitespace(): a sequence of lines,*)
(* each a colony name and its further tokens; a token is "dir=dst" (eq) or *)
(* a word without '=' (skipped by the parser); colony "" is a blank line.  *)
(***************************************************************************)
ParseNames == {"A", "B", "C"}

Kv(d, n) == [eq |-> TRUE, dir |-> d, dst |-> n]

Word == [eq |-> FALSE, dir |-> NORTH, dst |-> ""]

TokenLists ==
    { <<>>,
      <<Kv(NORTH, "B")>>,
      <<Kv(EAST, "A")>>,
      <<Kv(SOUTH, "C")>>,
      <<Kv(NORTH, "B"), Kv(WEST, "C")>>,
      <<Kv(NORTH, "B"), Kv(NORTH, "C")>>,
      <<Kv(SOUTH, "A"), Word, Kv(EAST, "B")>>,
      <<Kv(WEST, "C"), Kv(SOUTH, "B"), Kv(WEST, "A")>> }

LineChoices ==
    {[colony |-> "", rest |-> <<>>]}
        \cup {[colony |-> n, rest |-> t] : n \in ParseNames, t \in TokenLists}

\* name_to_id.entry(name).or_insert_with(...) (parser.rs:79-83, 96-102)
\* t = [names, name_to_id]
EntryOrInsert(t, name) ==
    IF name \in DOMAIN t.name_to_id THEN t
    ELSE [names      |-> Append(t.names, name),
          name_to_id |-> (name :> Len(t.names)) @@ t.name_to_id]

\* for kv in parts (parser.rs:85-92)
RECURSIVE PushEdges(_, _, _, _)
PushEdges(edges, src_id, rest, k) ==
    IF k > Len(rest) THEN edges
    ELSE PushEdges(IF rest[k].eq
                   THEN Append(edges, [src |-> src_id, dir |-> rest[k].dir,
                                       dst |-> rest[k].dst])
                   ELSE edges,
                   src_id, rest, k + 1)

\* for (_, _, dst) in &edges (parser.rs:95-101)
RECURSIVE InsertDestinations(_, _, _)
InsertDestinations(t, edges, k) ==
    IF k > Len(edges) THEN t
    ELSE InsertDestinations(EntryOrInsert(t, edges[k].dst), edges, k + 1)

\* mutant: the exit is also entered at the destination, leading back
ApplyEdgeBothWays(ns, name_to_id, e) ==
    LET dst  == name_to_id[e.dst]
        back == CASE e.dir = NORTH -> SOUTH
                  [] e.dir = SOUTH -> NORTH
                  [] e.dir = EAST  -> WEST
                  [] OTHER         -> EAST
        n1   == [ns EXCEPT ![e.src] = SetNeighbor(@, e.dir, dst)]
    IN  [n1 EXCEPT ![dst] = SetNeighbor(@, back, e.src)]

\* parser.rs:105-107, one edge
ApplyEdge(ns, name_to_id, e) ==
    [ns EXCEPT ![e.src] = SetNeighbor(@, e.dir, name_to_id[e.dst])]

InitParse ==
    /\ \E n \in 0..MaxLines : \E ls \in [1..n -> LineChoices] :
           parser = [NoParse EXCEPT !.lines = ls]
    /\ nodes = <<>>
    /\ args = [ants |-> 0, max_moves |-> 0]
    /\ ants = <<>>
    /\ active = <<>>
    /\ gen = <<>> /\ occ_count = <<>> /\ occ_first = <<>> /\ occ_second = <<>>
    /\ cur_gen = 1
    /\ gen_mod = U32_MODULUS
    /\ base_occ = <<>> /\ base_first = <<>> /\ base_second = <<>>
    /\ touched_nodes = <<>> /\ base_touched = <<>>
    /\ next_pos = <<>> /\ trapped_now = <<>>
    /\ pc = "parse_lines"
    /\ events = <<>>
    /\ ticks = 0
    /\ snap = EmptySnap
    /\ cn = NoHarness
    /\ early = NoSkip
    /\ detector = NoDetector
    /\ orig = NoOrig

\* one iteration of for raw in src.lines() (parser.rs:71-93)
ParseLine ==
    /\ pc = "parse_lines"
    /\ parser.line < Len(parser.lines)
    /\ LET l == parser.lines[parser.line + 1]
           t == EntryOrInsert([names |-> parser.names,
                               name_to_id |-> parser.name_to_id], l.colony)
       IN  parser' =
               IF l.colony = ""
               THEN [parser EXCEPT !.line = @ + 1]
               ELSE [parser EXCEPT
                        !.line = @ + 1,
                        !.names = t.names,
                        !.name_to_id = t.name_to_id,
                        !.edges = PushEdges(@, t.name_to_id[l.colony], l.rest, 1)]
    /\ UNCHANGED <<nodes, ants, args, active, gen, occ_count, occ_first,
                   occ_second, cur_gen, gen_mod, base_occ, base_first,
                   base_second, touched_nodes, base_touched, next_pos,
                   trapped_now, pc, events, ticks, snap, cn, early, detector, orig>>

\* parser.rs:95-103: ids for destinations, then one Node per name
BuildNodes ==
    /\ pc = "parse_lines"
    /\ parser.line = Len(parser.lines)
    /\ LET t == InsertDestinations([names |-> parser.names,
                                    name_to_id |-> parser.name_to_id],
                                   parser.edges, 1)
       IN  /\ parser' = [parser EXCEPT !.names = t.names,
                                       !.name_to_id = t.name_to_id,
                                       !.next = 1]
           /\ nodes' = [i \in 0..(Len(t.names) - 1) |-> NewNode(NoExits)]
    /\ pc' = "parse_edges"
    /\ UNCHANGED <<ants, args, active, gen, occ_count, occ_first,
                   occ_second, cur_gen, gen_mod, base_occ, base_first,
                   base_second, touched_nodes, base_touched, next_pos,
                   trapped_now, events, ticks, snap, cn, early, detector, orig>>

\* one iteration of for (src, dir, dst_name) in &edges (parser.rs:104-107)
SetNeighborStep ==
    /\ pc = "parse_edges"
    /\ parser.next <= Len(parser.edges)
    /\ nodes' = ApplyEdge(nodes, parser.name_to_id, parser.edges[parser.next])
    /\ parser' = [parser EXCEPT !.next = @ + 1]
    /\ UNCHANGED <<ants, args, active, gen, occ_count, occ_first,
                   occ_second, cur_gen, gen_mod, base_occ, base_first,
                   base_second, touched_nodes, base_touched, next_pos,
                   trapped_now, pc, events, ticks, snap, cn, early, detector, orig>>

\* parser.rs:109
ParseReturn ==
    /\ pc = "parse_edges"
    /\ parser.next > Len(parser.edges)
    /\ pc' = "parsed"
    /\ UNCHANGED <<nodes, ants, args, active, gen, occ_count, occ_first,
                   occ_second, cur_gen, gen_mod, base_occ, base_first,
                   base_second, touched_nodes, base_touched, next_pos,
                   trapped_now, events, ticks, snap, cn, early, parser, detector, orig>>

NextParse ==
    \/ ParseLine
    \/ BuildNodes
    \/ SetNeighborStep
    \/ ParseReturn

SpecParse == InitParse /\ [][NextParse]_vars

(***************************************************************************)
(* CollisionDetector, stationary layer (src/src/simulation/collision.rs).  *)
(* A tick of the caller is a run of add_stationary_ant calls closed by one *)
(* process_stationary_collisions call; added is the set of colonies the    *)
(* calls of the running tick named, calls the number of calls so far.      *)
(***************************************************************************)
\* CollisionDetector::new (collision.rs:32-45), stationary fields
NewDetector(ids) ==
    [base_occupancy |-> [c \in ids |-> 0],
     base_first     |-> [c \in ids |-> NO_ANT],
     base_second    |-> [c \in ids |-> NO_ANT],
     base_touched   |-> <<>>,
     added          |-> {},
     calls          |-> 0]

\* CollisionDetector::add_stationary_ant (collision.rs:158-170)
AddStationaryAnt(d, node_id, ant_id) ==
    LET d0 == [d EXCEPT !.base_touched = <<>>]
        d1 == CASE d0.base_occupancy[node_id] = 0 -> [d0 EXCEPT !.base_first[node_id] = ant_id]
                [] d0.base_occupancy[node_id] = 1 -> [d0 EXCEPT !.base_second[node_id] = ant_id]
                [] OTHER                          -> d0
        d2 == IF d0.base_occupancy[node_id] < 2
              THEN [d1 EXCEPT !.base_touched = Append(@, node_id)]
              ELSE d1
    IN  [d2 EXCEPT !.base_occupancy[node_id] = @ + 1]

\* CollisionDetector::process_stationary_collisions (collision.rs:173-183)
\* p = [detector, nodes, events]
RECURSIVE ProcessStationaryLoop(_, _)
ProcessStationaryLoop(p, i) ==
    IF i > Len(p.detector.base_touched) THEN p
    ELSE LET node_id == p.detector.base_touched[i]
         IN  IF /\ p.detector.base_occupancy[node_id] >= 2
                /\ IsAliveNode(p.nodes[node_id])
             THEN ProcessStationaryLoop(
                      [p EXCEPT !.events = Append(@, <<node_id,
                                                      p.detector.base_first[node_id],
                                                      p.detector.base_second[node_id]>>),
                                !.nodes[node_id] = Destroy(@),
                                !.detector.base_occupancy[node_id] = 0,
                                !.detector.base_first[node_id] = NO_ANT,
                                !.detector.base_second[node_id] = NO_ANT],
                      i + 1)
             ELSE ProcessStationaryLoop(p, i + 1)

InitDetector ==
    /\ \E g \in 1..Len(Maps) : nodes = WorldOf(Maps[g])
    /\ detector = NewDetector(DOMAIN nodes)
    /\ args = [ants |-> MaxAnts, max_moves |-> 0]
    /\ ants = <<>>
    /\ active = <<>>
    /\ gen = <<>> /\ occ_count = <<>> /\ occ_first = <<>> /\ occ_second = <<>>
    /\ cur_gen = 1
    /\ gen_mod = U32_MODULUS
    /\ base_occ = <<>> /\ base_first = <<>> /\ base_second = <<>>
    /\ touched_nodes = <<>> /\ base_touched = <<>>
    /\ next_pos = <<>> /\ trapped_now = <<>>
    /\ pc = "detector_processed"
    /\ events = <<>>
    /\ ticks = 0
    /\ snap = EmptySnap
    /\ cn = NoHarness
    /\ early = NoSkip
    /\ parser = NoParse
    /\ orig = NoOrig

\* one add_stationary_ant call; the first call after a
\* process_stationary_collisions opens a new tick
AddStationaryCall ==
    /\ pc \in {"detector_adding", "detector_processed"}
    /\ detector.calls < args.ants
    /\ \E node_id \in NodeIds :
          LET d == AddStationaryAnt(detector, node_id, detector.calls)
          IN  detector' = [d EXCEPT !.added = (IF pc = "detector_processed"
                                               THEN {} ELSE @) \cup {node_id},
                                    !.calls = @ + 1]
    /\ pc' = "detector_adding"
    /\ UNCHANGED <<nodes, ants, args, active, gen, occ_count, occ_first,
                   occ_second, cur_gen, gen_mod, base_occ, base_first,
                   base_second, touched_nodes, base_touched, next_pos,
                   trapped_now, events, ticks, snap, cn, early, parser, orig>>

\* one process_stationary_collisions call, closing the tick
ProcessStationaryCall ==
    /\ pc = "detector_adding"
    /\ LET p == ProcessStationaryLoop([detector |-> detector, nodes |-> nodes,
                                       events |-> events], 1)
       IN  /\ detector' = p.detector
           /\ nodes' = p.nodes
           /\ events' = p.events
    /\ pc' = "detector_processed"
    /\ UNCHANGED <<ants, args, active, gen, occ_count, occ_first, occ_second,
                   cur_gen, gen_mod, base_occ, base_first, base_second,
                   touched_nodes, base_touched, next_pos, trapped_now, ticks,
                   snap, cn, early, parser, orig>>

NextDetector ==
    \/ AddStationaryCall
    \/ ProcessStationaryCall

SpecDetector == InitDetector /\ [][NextDetector]_vars

(***************************************************************************)
(* The original program: main in src/src/main.rs, with its own Node and    *)
(* Ant. m is the record of main's locals: nodes ([neigh, alive] per id),   *)
(* ants, active, gen, occ_count, occ_first, occ_second, cur_gen, base_occ, *)
(* base_first, base_second, touched_nodes, base_touched, next_pos,         *)
(* trapped_now, the lines printed (events), the loop bodies entered        *)
(* (ticks) and the position in main (pc).                                  *)
(***************************************************************************)
\* Ant::is_alive (main.rs:75-77): state & ALIVE != 0
MainIsAlive(a) == a.state \in {1, 3}

\* Ant::is_trapped (main.rs:79-81): state & TRAPPED != 0
MainIsTrapped(a) == a.state \in {2, 3}

\* a.set_alive(false) (main.rs:83-89): state &= !ALIVE
MainClearAlive(a) ==
    [a EXCEPT !.state = CASE @ = 1 -> 0 [] @ = 3 -> 2 [] OTHER -> @]

\* a.set_trapped(false) (main.rs:91-97): state &= !TRAPPED
MainClearTrapped(a) ==
    [a EXCEPT !.state = CASE @ = 2 -> 0 [] @ = 3 -> 1 [] OTHER -> @]

\* a.set_trapped(true) (main.rs:91-97): state |= TRAPPED
MainMarkTrapped(a) ==
    [a EXCEPT !.state = CASE @ = 0 -> 2 [] @ = 1 -> 3 [] OTHER -> @]

\* the world main starts from (parse_world, main.rs:114-165) and the agents
\* create_ants returned (main.rs:167-186)
MainStart(w, as) ==
    [pc |-> "t0",
     nodes |-> [c \in DOMAIN w |-> [neigh |-> w[c].neighbors, alive |-> w[c].alive]],
     ants |-> as, active |-> <<>>,
     gen |-> <<>>, occ_count |-> <<>>, occ_first |-> <<>>, occ_second |-> <<>>,
     cur_gen |-> 1,
     base_occ |-> <<>>, base_first |-> <<>>, base_second |-> <<>>,
     touched_nodes |-> <<>>, base_touched |-> <<>>,
     next_pos |-> <<>>, trapped_now |-> <<>>,
     events |-> <<>>, ticks |-> 0]

\* choose_next_pos (main.rs:188-227)
MainChooseNextPos(w, ant_pos, draw) ==
    LET neigh == w[ant_pos].neigh
        Step(st, n) ==
            IF n # INVALID_NODE
            THEN [opts |-> [st.opts EXCEPT ![st.k] = n],
                  k    |-> IF w[n].alive THEN st.k + 1 ELSE st.k]
            ELSE st
        st0 == [opts |-> [i \in 0..3 |-> INVALID_NODE], k |-> 0]
        st4 == Step(Step(Step(Step(st0, neigh[1]), neigh[2]), neigh[3]), neigh[4])
    IN  IF st4.k = 0 THEN <<ant_pos, TRUE>> ELSE <<st4.opts[draw], FALSE>>

\* t=0 pre-pass, counting (main.rs:295-312); t = [count, first, second]
RECURSIVE MainT0Count(_, _, _)
MainT0Count(m, t, i) ==
    IF i \notin DOMAIN m.ants THEN t
    ELSE LET a   == m.ants[i]
             nid == a.pos
         IN  IF ~MainIsAlive(a) THEN MainT0Count(m, t, i + 1)
             ELSE IF t.count[nid] = 0
             THEN MainT0Count(m, [t EXCEPT !.first[nid] = a.id, !.count[nid] = 1], i + 1)
             ELSE IF t.count[nid] = 1
             THEN MainT0Count(m, [t EXCEPT !.second[nid] = a.id, !.count[nid] = 2], i + 1)
             ELSE MainT0Count(m, [t EXCEPT !.count[nid] = @ + 1], i + 1)

\* t=0 pre-pass, destruction (main.rs:313-327); x = [m, destroyed]
RECURSIVE MainT0Destroy(_, _, _)
MainT0Destroy(x, t, nid) ==
    IF nid \notin DOMAIN x.m.nodes THEN x
    ELSE IF t.count[nid] >= 2 /\ x.m.nodes[nid].alive
         THEN MainT0Destroy(
                  [x EXCEPT !.m.events = Append(@, <<nid, t.first[nid], t.second[nid]>>),
                            !.m.nodes[nid].alive = FALSE,
                            !.destroyed[nid] = TRUE],
                  t, nid + 1)
         ELSE MainT0Destroy(x, t, nid + 1)

\* t=0 pre-pass (main.rs:287-335)
MainT0(m) ==
    LET ids == DOMAIN m.nodes
        t   == MainT0Count(m, [count  |-> [c \in ids |-> 0],
                               first  |-> [c \in ids |-> NO_ANT],
                               second |-> [c \in ids |-> NO_ANT]], 0)
        x   == MainT0Destroy([m |-> m, destroyed |-> [c \in ids |-> FALSE]], t, 0)
    IN  [x.m EXCEPT
            !.ants = [i \in DOMAIN @ |->
                         IF x.destroyed[@[i].pos]
                         THEN MainClearTrapped(MainClearAlive(@[i]))
                         ELSE @[i]],
            !.pc = "setup"]

\* active list and buffers (main.rs:337-371)
RECURSIVE MainInitialActive(_, _, _)
MainInitialActive(as, max_moves, i) ==
    IF i \notin DOMAIN as THEN <<>>
    ELSE IF MainIsAlive(as[i]) /\ ~MainIsTrapped(as[i]) /\ as[i].moves < max_moves
         THEN <<i>> \o MainInitialActive(as, max_moves, i + 1)
         ELSE MainInitialActive(as, max_moves, i + 1)

MainSetup(m) ==
    LET ids == DOMAIN m.nodes
    IN  [m EXCEPT
            !.active = MainInitialActive(m.ants, args.max_moves, 0),
            !.gen = [c \in ids |-> 0],
            !.occ_count = [c \in ids |-> 0],
            !.occ_first = [c \in ids |-> NO_ANT],
            !.occ_second = [c \in ids |-> NO_ANT],
            !.cur_gen = 1,
            !.base_occ = [c \in ids |-> 0],
            !.base_first = [c \in ids |-> NO_ANT],
            !.base_second = [c \in ids |-> NO_ANT],
            !.touched_nodes = <<>>,
            !.base_touched = <<>>,
            !.next_pos = [i \in DOMAIN m.ants |-> m.ants[i].pos],
            !.trapped_now = [i \in DOMAIN m.ants |-> FALSE],
            !.pc = "loop"]

\* while !active.is_empty() and the start of the body (main.rs:373-376)
MainLoopHead(m) ==
    IF m.active = <<>> THEN [m EXCEPT !.pc = "done"]
    ELSE [m EXCEPT !.cur_gen = (@ + 1) % gen_mod,
                   !.touched_nodes = <<>>,
                   !.base_touched = <<>>,
                   !.ticks = @ + 1,
                   !.pc = "decide"]

\* (1) decide (main.rs:378-394); r[ai] is the draw of ai's call
RECURSIVE MainDecideLoop(_, _, _)
MainDecideLoop(m, i, r) ==
    IF i > Len(m.active) THEN m
    ELSE LET ai == m.active[i]
             a  == m.ants[ai]
         IN  IF ~MainIsAlive(a) \/ a.moves >= args.max_moves \/ MainIsTrapped(a)
             THEN MainDecideLoop([m EXCEPT !.active = SwapRemove(@, i)], i, r)
             ELSE LET res == MainChooseNextPos(m.nodes, a.pos, r[ai])
                  IN  MainDecideLoop([m EXCEPT !.next_pos[ai] = res[1],
                                               !.trapped_now[ai] = res[2]],
                                     i + 1, r)

MainDecide(m, r) ==
    LET d == MainDecideLoop(m, 1, r)
    IN  [d EXCEPT !.pc = IF d.active = <<>> THEN "done" ELSE "occupancy"]

\* (2) build occupancy (main.rs:396-428)
RECURSIVE MainOccupancyLoop(_, _)
MainOccupancyLoop(m, i) ==
    IF i > Len(m.active) THEN m
    ELSE LET ai  == m.active[i]
             a   == m.ants[ai]
             nid == m.next_pos[ai]
             m1  == IF m.gen[nid] # m.cur_gen
                    THEN [m EXCEPT !.gen[nid] = m.cur_gen,
                                   !.occ_count[nid] = m.base_occ[nid],
                                   !.occ_first[nid] = m.base_first[nid],
                                   !.occ_second[nid] = m.base_second[nid],
                                   !.touched_nodes = Append(@, nid)]
                    ELSE m
             m2  == IF m1.occ_count[nid] = 0
                    THEN [m1 EXCEPT !.occ_first[nid] = a.id, !.occ_count[nid] = 1]
                    ELSE IF m1.occ_count[nid] = 1
                    THEN IF m1.occ_first[nid] = NO_ANT
                         THEN [m1 EXCEPT !.occ_first[nid] = a.id, !.occ_count[nid] = 2]
                         ELSE [m1 EXCEPT !.occ_second[nid] = a.id, !.occ_count[nid] = 2]
                    ELSE [m1 EXCEPT !.occ_count[nid] = @ + 1]
         IN  IF ~MainIsAlive(a) THEN MainOccupancyLoop(m, i + 1)
             ELSE MainOccupancyLoop(m2, i + 1)

MainOccupancy(m) == [MainOccupancyLoop(m, 1) EXCEPT !.pc = "destroy"]

\* (3) destroy collided colonies (main.rs:430-449)
RECURSIVE MainDestroyLoop(_, _)
MainDestroyLoop(m, i) ==
    IF i > Len(m.touched_nodes) THEN m
    ELSE LET nid == m.touched_nodes[i]
         IN  IF m.occ_count[nid] >= 2 /\ m.nodes[nid].alive
             THEN MainDestroyLoop(
                      [m EXCEPT !.events = Append(@, <<nid, m.occ_first[nid], m.occ_second[nid]>>),
                                !.nodes[nid].alive = FALSE,
                                !.base_occ[nid] = 0,
                                !.base_first[nid] = NO_ANT,
                                !.base_second[nid] = NO_ANT],
                      i + 1)
             ELSE MainDestroyLoop(m, i + 1)

MainDestroy(m) == [MainDestroyLoop(m, 1) EXCEPT !.pc = "commit"]

\* a new stationary agent (main.rs:477-485 and 491-499)
MainRegister(m, nid, id) ==
    LET m1 == IF m.base_occ[nid] = 0 THEN [m EXCEPT !.base_first[nid] = id]
              ELSE IF m.base_occ[nid] = 1 THEN [m EXCEPT !.base_second[nid] = id]
              ELSE m
        m2 == IF m.base_occ[nid] < 2
              THEN [m1 EXCEPT !.base_touched = Append(@, nid)]
              ELSE m1
    IN  [m2 EXCEPT !.base_occ[nid] = @ + 1]

\* (4) commit (main.rs:451-505)
RECURSIVE MainCommitLoop(_, _)
MainCommitLoop(m, j) ==
    IF j > Len(m.active) THEN m
    ELSE LET ai         == m.active[j]
             nid        == m.next_pos[ai]
             node_alive == m.nodes[nid].alive
             a          == m.ants[ai]
             moved      == [a EXCEPT !.pos = nid, !.moves = @ + 1]
         IN  IF ~MainIsAlive(a)
             THEN MainCommitLoop([m EXCEPT !.active = SwapRemove(@, j)], j)
             ELSE IF ~node_alive
             THEN MainCommitLoop(
                      [m EXCEPT !.ants[ai] = MainClearTrapped(MainClearAlive(a)),
                                !.active = SwapRemove(@, j)], j)
             ELSE IF ~m.trapped_now[ai] /\ nid # a.pos
             THEN IF moved.moves >= args.max_moves
                  THEN MainCommitLoop(
                           MainRegister([m EXCEPT !.ants[ai] = moved,
                                                  !.active = SwapRemove(@, j)],
                                        nid, a.id), j)
                  ELSE MainCommitLoop([m EXCEPT !.ants[ai] = moved], j + 1)
             ELSE IF m.trapped_now[ai] /\ ~MainIsTrapped(a)
             THEN MainCommitLoop(
                      MainRegister([m EXCEPT !.ants[ai] = MainMarkTrapped(a),
                                             !.active = SwapRemove(@, j)],
                                   nid, a.id), j)
             ELSE MainCommitLoop(m, j + 1)

MainCommit(m) == [MainCommitLoop(m, 1) EXCEPT !.pc = "stationary"]

\* (5) pure-stationary destruction (main.rs:507-526)
RECURSIVE MainStationaryLoop(_, _)
MainStationaryLoop(m, i) ==
    IF i > Len(m.base_touched) THEN m
    ELSE LET nid == m.base_touched[i]
         IN  IF m.base_occ[nid] >= 2 /\ m.nodes[nid].alive
             THEN MainStationaryLoop(
                      [m EXCEPT !.events = Append(@, <<nid, m.base_first[nid], m.base_second[nid]>>),
                                !.nodes[nid].alive = FALSE,
                                !.base_occ[nid] = 0,
                                !.base_first[nid] = NO_ANT,
                                !.base_second[nid] = NO_ANT],
                      i + 1)
             ELSE MainStationaryLoop(m, i + 1)

MainStationary(m) == [MainStationaryLoop(m, 1) EXCEPT !.pc = "exit_check"]

\* (6) early exit (main.rs:528-532)
MainEarlyExit(m) ==
    LET alive_ants == Cardinality({i \in DOMAIN m.ants : MainIsAlive(m.ants[i])})
    IN  [m EXCEPT !.pc = IF alive_ants <= 1 THEN "done" ELSE "loop"]

\* the next step of main from position m.pc, on the world, agents and draws
\* the engine was given
MainNext(m) ==
    CASE m.pc = "create"     -> MainStart(nodes, ants)
      [] m.pc = "t0"         -> MainT0(m)
      [] m.pc = "setup"      -> MainSetup(m)
      [] m.pc = "loop"       -> MainLoopHead(m)
      [] m.pc = "decide"     -> MainDecide(m, snap.draws)
      [] m.pc = "occupancy"  -> MainOccupancy(m)
      [] m.pc = "destroy"    -> MainDestroy(m)
      [] m.pc = "commit"     -> MainCommit(m)
      [] m.pc = "stationary" -> MainStationary(m)
      [] m.pc = "exit_check" -> MainEarlyExit(m)
      [] OTHER               -> m

(***************************************************************************)
(* Both programs side by side: the engine takes a step, then main takes    *)
(* the same step on its own locals.                                        *)
(***************************************************************************)
InitBoth ==
    /\ \E g \in 1..Len(Maps) : nodes = WorldOf(Maps[g])
    /\ \E n \in 1..MaxAnts, mm \in 0..MaxMoveLimit :
           args = [ants |-> n, max_moves |-> mm]
    /\ ants = <<>>
    /\ active = <<>>
    /\ gen = <<>> /\ occ_count = <<>> /\ occ_first = <<>> /\ occ_second = <<>>
    /\ cur_gen = 1
    /\ gen_mod = U32_MODULUS
    /\ base_occ = <<>> /\ base_first = <<>> /\ base_second = <<>>
    /\ touched_nodes = <<>> /\ base_touched = <<>>
    /\ next_pos = <<>> /\ trapped_now = <<>>
    /\ pc = "create"
    /\ events = <<>>
    /\ ticks = 0
    /\ snap = EmptySnap
    /\ cn = NoHarness
    /\ early = NoSkip
    /\ parser = NoParse
    /\ detector = NoDetector
    /\ orig = [pc |-> "create"]

EngineStep ==
    /\ orig.pc = pc
    /\ Next

MainStep ==
    /\ orig.pc # pc
    /\ orig' = MainNext(orig)
    /\ UNCHANGED <<nodes, ants, args, active, gen, occ_count, occ_first,
                   occ_second, cur_gen, gen_mod, base_occ, base_first,
                   base_second, touched_nodes, base_touched, next_pos,
                   trapped_now, pc, events, ticks, snap, cn, early, parser,
                   detector>>

NextBoth ==
    \/ EngineStep
    \/ MainStep

SpecBoth == InitBoth /\ [][NextBoth]_vars

(***************************************************************************)
(* Properties                                                              *)
(***************************************************************************)
ColonyAlive(c) == IsAliveNode(nodes[c])

\* active agents whose destination this tick is colony c
Arrivals(c) == Cardinality({ai \in Range(snap.active) : next_pos[ai] = c})

\* C1 - Collision completeness: at the end of a tick, a colony that was alive
\* at the start of the tick is destroyed iff its stationary stock at the start
\* of the tick plus the number of active agents heading to it is at least 2.
C1_CollisionCompleteness ==
    pc = "exit_check" =>
        \A c \in NodeIds :
            snap.alive[c] =>
                (~ColonyAlive(c) <=> snap.base_occ[c] + Arrivals(c) >= 2)

C1_Witness ==
    /\ pc = "exit_check"
    /\ \E c \in NodeIds :
          snap.alive[c] /\ ~ColonyAlive(c) /\ snap.base_occ[c] = 1 /\ Arrivals(c) = 1
    /\ \E c \in NodeIds :
          snap.alive[c] /\ ColonyAlive(c) /\ snap.base_occ[c] + Arrivals(c) = 1

\* agents placed at colony c (positions are not changed by the t=0 pass)
PlacedAt(c) == {i \in AntIds : ants[i].pos = c}

\* C2 - Time-zero invariant: after the t=0 pass and before the first tick,
\* every colony with two or more initial agents is destroyed and its agents
\* are not alive and not trapped; every other colony is alive and its agent
\* is alive; a one-colony world with two or more agents ends with no
\* surviving colony.
C2_TimeZero ==
    /\ (pc = "setup" \/ (pc = "loop" /\ ticks = 0)) =>
          \A c \in NodeIds :
              IF Cardinality(PlacedAt(c)) >= 2
              THEN /\ ~ColonyAlive(c)
                   /\ \A i \in PlacedAt(c) : ~IsAlive(ants[i]) /\ ~IsTrapped(ants[i])
              ELSE /\ ColonyAlive(c)
                   /\ \A i \in PlacedAt(c) : IsAlive(ants[i])
    /\ (pc = "done" /\ Cardinality(NodeIds) = 1 /\ args.ants >= 2) =>
          {c \in NodeIds : ColonyAlive(c)} = {}

C2_Witness ==
    /\ pc = "setup"
    /\ \E c \in NodeIds : Cardinality(PlacedAt(c)) >= 2
    /\ \E c \in NodeIds : Cardinality(PlacedAt(c)) = 1

\* C3 - Destruction kills every occupant: at the end of the t=0 pass and of
\* every tick, no agent with alive=true stands on a destroyed colony.
C3_NoLiveAntOnDestroyedColony ==
    pc \in {"setup", "loop", "exit_check", "done"} =>
        \A i \in AntIds : IsAlive(ants[i]) => ColonyAlive(ants[i].pos)

\* C4 - Termination bound: the number of ticks (loop bodies entered) never
\* exceeds the configured move limit.
C4_TicksBoundedByMoveLimit == ticks <= args.max_moves

\* an agent that is stationary (trapped or move-exhausted) at c when the
\* running tick starts
StationaryAt(c) ==
    \E i \in DOMAIN snap.ants :
        /\ IsAlive(snap.ants[i])
        /\ IsTrapped(snap.ants[i]) \/ HasMaxMoves(snap.ants[i], args.max_moves)
        /\ snap.ants[i].pos = c

\* C5 - A stationary agent keeps participating: once the tick's arrival
\* collisions are resolved, every colony that was alive at the start of the
\* tick, held an agent that became stationary in an earlier tick, and is the
\* destination of an active agent, is destroyed.
C5_StationaryCollides ==
    pc \in {"commit", "stationary", "exit_check"} =>
        \A c \in NodeIds :
            (snap.alive[c] /\ StationaryAt(c) /\ Arrivals(c) >= 1) => ~ColonyAlive(c)

C5_Witness ==
    /\ pc = "commit"
    /\ \E c \in NodeIds : snap.alive[c] /\ StationaryAt(c) /\ Arrivals(c) >= 1

\* exits of the harness colony that lead to a colony alive now
LiveSlots == {s \in 1..4 : /\ nodes[cn.pos].neighbors[s] # INVALID_NODE
                           /\ ColonyAlive(nodes[cn.pos].neighbors[s])}

LiveTargets == {nodes[cn.pos].neighbors[s] : s \in LiveSlots}

\* C6 - choose_next_position on a live colony none of whose exits leads to
\* an alive colony returns (position, true).
C6_TrappedWhenNoLiveExit ==
    (pc = "chosen" /\ LiveSlots = {}) => cn.out = <<cn.pos, TRUE>>

C6_Witness ==
    /\ pc = "chosen"
    /\ LiveSlots = {}
    /\ \E s \in 1..4 : nodes[cn.pos].neighbors[s] # INVALID_NODE

\* C7 - choose_next_position on a colony with a live exit returns (c, false)
\* with c the target of an exit leading to an alive colony, never the
\* sentinel or a destroyed colony; every live exit is a possible result.
C7_ChoosesLiveExit ==
    (pc = "chosen" /\ LiveSlots # {}) =>
        /\ cn.out[2] = FALSE
        /\ cn.out[1] \in LiveTargets
        /\ {ChooseNextPosition(nodes, cn.pos, d)[1] :
                d \in 0..(Cardinality(LiveSlots) - 1)} = LiveTargets

C7_Witness ==
    /\ pc = "chosen"
    /\ Cardinality(LiveTargets) >= 2
    /\ \E s \in 1..4 : /\ nodes[cn.pos].neighbors[s] # INVALID_NODE
                       /\ ~ColonyAlive(nodes[cn.pos].neighbors[s])

\* C8 - Colony liveness is monotone: a destroyed colony is never alive again,
\* is_alive is false after destroy, and destroying it again changes nothing.
C8_ColonyLivenessMonotone ==
    [][\A c \in NodeIds :
          /\ ~IsAliveNode(nodes[c]) => ~IsAliveNode(nodes'[c])
          /\ ~IsAliveNode(Destroy(nodes'[c]))
          /\ Destroy(Destroy(nodes'[c])) = Destroy(nodes'[c])]_vars

C8_Witness ==
    /\ pc = "done"
    /\ ticks >= 2
    /\ \E c \in NodeIds : ~ColonyAlive(c)

\* C9 - No agent's alive flag ever changes from false to true.
C9_AliveNeverRevived ==
    [][\A i \in AntIds \cap DOMAIN ants' :
          ~IsAlive(ants[i]) => ~IsAlive(ants'[i])]_vars

C9_Witness ==
    /\ pc = "exit_check"
    /\ ticks >= 2
    /\ \E i \in AntIds : ~IsAlive(ants[i]) /\ ColonyAlive(ants[i].pos)

\* C10 - No agent's trapped flag ever changes from true to false.
C10_TrappedNeverCleared ==
    [][\A i \in AntIds \cap DOMAIN ants' :
          IsTrapped(ants[i]) => IsTrapped(ants'[i])]_vars

C10_Witness ==
    /\ pc = "exit_check"
    /\ \E i \in AntIds : IsTrapped(ants[i]) /\ ~ColonyAlive(ants[i].pos)

\* C11 - An agent's move counter never decreases; it changes only in the
\* commit step, by exactly +1, at most once per tick, and exactly together
\* with a change of the agent's position to a different colony.
C11_MoveCounter ==
    /\ [](pc \in {"stationary", "exit_check"} =>
             \A i \in AntIds : ants[i].moves - snap.ants[i].moves \in {0, 1})
    /\ [][\A i \in AntIds \cap DOMAIN ants' :
             /\ ants'[i].moves >= ants[i].moves
             /\ ants'[i].moves # ants[i].moves =>
                   /\ pc = "commit"
                   /\ ants'[i].moves = ants[i].moves + 1
                   /\ ants'[i].pos # ants[i].pos
             /\ ants'[i].pos # ants[i].pos =>
                   ants'[i].moves = ants[i].moves + 1]_vars

C11_Witness ==
    /\ pc = "exit_check"
    /\ \E i \in AntIds : /\ ants[i].moves = snap.ants[i].moves + 1
                         /\ ants[i].pos # snap.ants[i].pos
    /\ \E j \in Range(snap.active) : /\ IsAlive(ants[j])
                                     /\ ants[j].moves = snap.ants[j].moves

\* C12 - In every reachable state, trapped=true implies alive=true for
\* every agent.
C12_TrappedImpliesAlive ==
    \A i \in AntIds : IsTrapped(ants[i]) => IsAlive(ants[i])

C12_Witness ==
    /\ pc = "exit_check"
    /\ \E i \in AntIds : IsTrapped(ants[i]) /\ ~ColonyAlive(ants[i].pos)
    /\ \E j \in AntIds : ~IsAlive(ants[j]) /\ IsAlive(snap.ants[j])

\* agents whose committed move of the running tick brought their move
\* counter to the limit
ExhaustedNow ==
    {i \in AntIds : /\ snap.ants[i].moves < args.max_moves
                    /\ ants[i].moves = args.max_moves}

\* C13 - Move exhaustion: an agent whose committed move brings its move
\* counter to the limit keeps alive=true and trapped=false, is recorded in the
\* stationary stock of its new colony and is no longer in the active set; an
\* agent at the limit never changes position again; no move counter exceeds
\* the limit.
C13_MoveExhaustion ==
    /\ [](pc = "stationary" =>
             \A i \in ExhaustedNow :
                 /\ IsAlive(ants[i]) /\ ~IsTrapped(ants[i])
                 /\ i \notin Range(active)
                 /\ base_occ[ants[i].pos] >= snap.base_occ[ants[i].pos] + 1
                 /\ base_occ[ants[i].pos] <= 2 =>
                       i \in {base_first[ants[i].pos], base_second[ants[i].pos]})
    /\ [](\A i \in AntIds : ants[i].moves <= args.max_moves)
    /\ [][\A i \in AntIds \cap DOMAIN ants' :
             ants[i].moves >= args.max_moves => ants'[i].pos = ants[i].pos]_vars

C13_Witness ==
    /\ pc = "stationary"
    /\ args.max_moves >= 2
    /\ \E i \in ExhaustedNow : base_first[ants[i].pos] = i
    /\ \E j \in AntIds : ~IsAlive(ants[j])

LiveAgents == {i \in AntIds : IsAlive(ants[i])}

LiveColonies == {c \in NodeIds : ColonyAlive(c)}

\* C14 - Early exit is sound: the loop goes round again only while at least
\* two agents are alive and stops at the end of the first tick that leaves at
\* most one alive; from a state with at most one agent alive no step destroys
\* a colony, so a run continued past that point until the active set is
\* empty always has the colonies alive that were alive at the early exit.
C14_EarlyExitSound ==
    /\ []((~early.skipped /\ pc = "loop" /\ ticks >= 1) =>
             Cardinality(LiveAgents) >= 2)
    /\ [][(pc = "exit_check" /\ ~early'.skipped) =>
             (pc' = "done" <=> Cardinality(LiveAgents) <= 1)]_vars
    /\ [][(pc \notin {"create", "t0"} /\ Cardinality(LiveAgents) <= 1) =>
             \A c \in NodeIds : ColonyAlive(c) => IsAliveNode(nodes'[c])]_vars
    /\ [](early.skipped => LiveColonies = early.alive)

C14_Witness ==
    /\ early.skipped
    /\ pc = "done"
    /\ ticks >= 3
    /\ args.ants >= 2
    /\ early.alive # NodeIds
    /\ \E i \in AntIds : IsTrapped(ants[i])

\* C15 - With exactly one agent no colony is ever destroyed and the agent
\* stays alive, so the survivor count equals the colony count; one exitless
\* colony with one agent ends with that colony alive, the agent trapped and
\* 1 survivor.
C15_SingleAgent ==
    args.ants = 1 =>
        /\ \A c \in NodeIds : ColonyAlive(c)
        /\ \A i \in AntIds : IsAlive(ants[i])
        /\ CountSurvivors(nodes) = Cardinality(NodeIds)
        /\ events = <<>>
        /\ (pc = "done" /\ Cardinality(NodeIds) = 1) =>
              /\ CountSurvivors(nodes) = 1
              /\ ants[0] = [pos |-> 0, id |-> 0, moves |-> 0,
                            state |-> IF args.max_moves = 0 THEN ALIVE
                                      ELSE ALIVE + TRAPPED]

C15_Witness ==
    /\ pc = "done"
    /\ args.ants = 1
    /\ Cardinality(NodeIds) = 1
    /\ IsTrapped(ants[0])
    /\ ticks = 1

\* the run is on the g-th map of the catalogue
OnMap(g) ==
    /\ NodeIds = 0..(Len(Maps[g]) - 1)
    /\ \A c \in NodeIds : nodes[c].neighbors = Maps[g][c + 1]

\* one agent that started at A on "A east=B", move limit at least 2 (no exit
\* leads to A, and B is entered only by a counted move)
SingleAtA ==
    /\ OnMap(2)
    /\ args.ants = 1
    /\ args.max_moves >= 2
    /\ AntIds # {}
    /\ ants[0].pos = 0 \/ ants[0].moves >= 1

\* C16 (as stated) - On "A east=B" with one agent starting at A and a move
\* limit of at least 2, the agent ends the simulation at B marked trapped,
\* and A and B are alive.
C16_EndsTrappedAtB ==
    (pc = "done" /\ SingleAtA) =>
        /\ ants[0].pos = 1
        /\ IsTrapped(ants[0])
        /\ ColonyAlive(0) /\ ColonyAlive(1)

\* C16 (amended) - On "A east=B" with one agent starting at A and a move
\* limit of at least 2, the agent's first decision moves it to B; the loop
\* then stops at the early exit after this one tick, so the agent ends the
\* simulation at B with one move, alive and not marked trapped; a following
\* decision at B would report trapped with position B; A and B are alive.
C16_MovesToBThenStops ==
    /\ (pc = "occupancy" /\ SingleAtA) =>
          ticks = 1 /\ next_pos[0] = 1 /\ ~trapped_now[0]
    /\ (pc = "done" /\ SingleAtA) =>
          /\ ticks = 1
          /\ ants[0] = [pos |-> 1, id |-> 0, moves |-> 1, state |-> ALIVE]
          /\ \A d \in Draws(nodes, 1) : ChooseNextPosition(nodes, 1, d) = <<1, TRUE>>
          /\ ColonyAlive(0) /\ ColonyAlive(1)

C16_Witness ==
    /\ pc = "done"
    /\ SingleAtA
    /\ ants[0].pos = 1
    /\ args.max_moves = 3

\* colonies named by the destruction events so far
EventColonies == {events[k][1] : k \in 1..Len(events)}

\* C17 - Each colony is destroyed at most once: no two destruction events
\* name the same colony, a step emits an event for a colony exactly when it
\* turns that colony's alive flag from true to false, and the survivor count
\* equals the colony count minus the number of events.
C17_DestroyedOnce ==
    /\ [](\A k, l \in 1..Len(events) : k # l => events[k][1] # events[l][1])
    /\ [](EventColonies = NodeIds \ LiveColonies)
    /\ [](CountSurvivors(nodes) = Cardinality(NodeIds) - Len(events))
    /\ [][{events'[k][1] : k \in (Len(events) + 1)..Len(events')}
             = {c \in NodeIds : ColonyAlive(c) /\ ~IsAliveNode(nodes'[c])}]_vars

C17_Witness ==
    /\ pc = "done"
    /\ OnMap(10)
    /\ args.ants = 2
    /\ ticks >= 2
    /\ Len(events) = 1
    /\ CountSurvivors(nodes) = 2

\* what the claim asks of the agents create_ants returns
CreatedAsAsked ==
    /\ DOMAIN ants = 0..(args.ants - 1)
    /\ \A i \in DOMAIN ants :
          /\ ants[i].id = i
          /\ ColonyAlive(ants[i].pos)
          /\ IsAlive(ants[i]) /\ ~IsTrapped(ants[i])
          /\ ants[i].moves = 0
    /\ \A c \in LiveColonies :
          \E k \in 0..(Len(AliveNodeList(nodes, 0)) - 1) :
              \A i \in 0..(args.ants - 1) :
                  CreateAntsFrom(nodes, args.ants, [j \in 0..(args.ants - 1) |-> k])[i].pos = c

\* C19 (as stated) - create_ants(count) returns exactly count agents with ids
\* 0..count-1 in order, each at a colony alive at the time of the call, alive,
\* not trapped, move counter 0; every alive colony is a possible position.
C19_CreateAlwaysReturns ==
    pc \in {"created", "panicked"} => CreatedAsAsked

\* C19 (amended) - On a world with at least one alive colony, or for count 0,
\* create_ants(count) returns exactly count agents with ids 0..count-1 in
\* order, each at a colony alive at the time of the call, alive, not trapped,
\* move counter 0, and every alive colony is a possible position for every
\* agent; on a world with no alive colony and count >= 1 the call panics and
\* returns no agents.
C19_CreateOnLiveWorld ==
    /\ pc = "created" =>
          /\ LiveColonies # {} \/ args.ants = 0
          /\ CreatedAsAsked
    /\ pc = "panicked" =>
          /\ LiveColonies = {} /\ args.ants >= 1
          /\ ants = <<>>

C19_Witness ==
    /\ pc = "created"
    /\ args.ants >= 2
    /\ LiveColonies # NodeIds
    /\ ants[0].pos # ants[1].pos
    /\ ants[1].pos # 0

\* agent a is an occupant of colony c for the step now being taken: placed
\* there (t=0 pass), heading there in this tick, or stationary there since an
\* earlier tick
OccupantAt(a, c) ==
    IF pc = "t0"
    THEN IsAlive(ants[a]) /\ ants[a].pos = c
    ELSE \/ a \in Range(snap.active) /\ next_pos[a] = c
         \/ /\ IsAlive(snap.ants[a])
            /\ IsTrapped(snap.ants[a]) \/ HasMaxMoves(snap.ants[a], args.max_moves)
            /\ snap.ants[a].pos = c

\* C20 - Every destruction event (time zero or in a tick) names two distinct
\* agent ids, neither of them the sentinel, and both named agents are
\* occupants of the destroyed colony at that moment.
C20_EventNamesTwoOccupants ==
    [][\A k \in (Len(events) + 1)..Len(events') :
          LET e == events'[k]
          IN  /\ e[2] # e[3]
              /\ e[2] # NO_ANT /\ e[3] # NO_ANT
              /\ e[2] \in AntIds /\ e[3] \in AntIds
              /\ OccupantAt(e[2], e[1]) /\ OccupantAt(e[3], e[1])]_vars

C20_Witness ==
    /\ pc = "commit"
    /\ Len(events) >= 1
    /\ LET e == events[Len(events)]
       IN  /\ snap.alive[e[1]]
           /\ ~ColonyAlive(e[1])
           /\ snap.base_occ[e[1]] = 1
           /\ IsTrapped(snap.ants[e[2]])
           /\ snap.ants[e[2]].pos = e[1]
           /\ next_pos[e[3]] = e[1]

\* declarations "colony dir=dst" of the text, by line and token position
Declarations ==
    {[line |-> i, tok |-> k, colony |-> parser.lines[i].colony,
      dir |-> parser.lines[i].rest[k].dir, dst |-> parser.lines[i].rest[k].dst] :
        <<i, k>> \in {p \in (1..Len(parser.lines)) \X (1..3) :
                         /\ p[2] <= Len(parser.lines[p[1]].rest)
                         /\ parser.lines[p[1]].rest[p[2]].eq}}

\* names the text mentions, as a colony or as a destination
Mentioned ==
    {parser.lines[i].colony : i \in {j \in 1..Len(parser.lines) :
                                        parser.lines[j].colony # ""}}
        \cup {d.dst : d \in Declarations}

\* id of a colony name: its index in the name table
IdOf(name) == CHOOSE i \in 0..(Len(parser.names) - 1) : parser.names[i + 1] = name

\* d is the last declaration of the text for its colony and direction
IsLast(d) ==
    \A e \in Declarations :
        (e.colony = d.colony /\ e.dir = d.dir) =>
            (e.line < d.line \/ (e.line = d.line /\ e.tok <= d.tok))

\* C21 - Graph build yields directed exits: applying a declaration
\* "A dir=B" sets A's slot for dir to B's id and changes no other slot of any
\* colony; after the build every slot is the sentinel or an id below the
\* colony count, a slot is set exactly when the text declares it (to the
\* target of its last declaration), and every name mentioned, also one named
\* only as a destination, is one colony, without exits unless it declares some.
C21_DirectedExits ==
    /\ [][(pc = "parse_edges" /\ pc' = "parse_edges") =>
             LET e == parser.edges[parser.next]
             IN  /\ nodes'[e.src].neighbors[e.dir + 1] = IdOf(e.dst)
                 /\ \A c \in NodeIds : \A sl \in 1..4 :
                        (c # e.src \/ sl # e.dir + 1) =>
                            nodes'[c].neighbors[sl] = nodes[c].neighbors[sl]]_vars
    /\ [](pc = "parsed" =>
             /\ NodeIds = 0..(Cardinality(Mentioned) - 1)
             /\ \A n \in Mentioned :
                    Cardinality({i \in 1..Len(parser.names) : parser.names[i] = n}) = 1
             /\ \A c \in NodeIds : \A sl \in 1..4 :
                    /\ nodes[c].neighbors[sl] = INVALID_NODE
                          \/ nodes[c].neighbors[sl] < Cardinality(NodeIds)
                    /\ nodes[c].neighbors[sl] # INVALID_NODE <=>
                          \E d \in Declarations :
                              IdOf(d.colony) = c /\ d.dir + 1 = sl
             /\ \A d \in Declarations :
                    IsLast(d) =>
                        nodes[IdOf(d.colony)].neighbors[d.dir + 1] = IdOf(d.dst)
             /\ \A c \in NodeIds : IsAliveNode(nodes[c]))

C21_Witness ==
    /\ pc = "parsed"
    /\ Cardinality(NodeIds) = 3
    /\ \E d \in Declarations :
          /\ IsLast(d)
          /\ d.colony # d.dst
          /\ nodes[IdOf(d.dst)].neighbors = NoExits
          /\ \A i \in 1..Len(parser.lines) : parser.lines[i].colony # d.dst
    /\ \E d \in Declarations : ~IsLast(d)

\* the commit of the running tick has been applied to active agent ai
Committed(ai) ==
    IF ~ColonyAlive(next_pos[ai]) THEN ~IsAlive(ants[ai])
    ELSE IF trapped_now[ai] THEN IsTrapped(ants[ai])
    ELSE ants[ai].pos = next_pos[ai]

\* C22 - Phase ordering inside every tick: decide, record arrivals, resolve
\* arrival collisions, commit, resolve stationary collisions, termination
\* check. Each kind of state is written in its phase only; no agent is
\* modified before every arrival collision of the tick has been applied, and
\* the stationary resolution runs with every active agent committed.
C22_PhaseOrdering ==
    [][pc \notin {"create", "t0", "setup"} =>
          /\ pc = "loop" => pc' \in {"decide", "done"}
          /\ pc = "decide" => pc' \in {"occupancy", "done"}
          /\ pc = "occupancy" => pc' = "destroy"
          /\ pc = "destroy" => pc' = "commit"
          /\ pc = "commit" => pc' = "stationary"
          /\ pc = "stationary" => pc' = "exit_check"
          /\ pc = "exit_check" => pc' \in {"loop", "done"}
          /\ <<next_pos, trapped_now>>' # <<next_pos, trapped_now>> => pc = "decide"
          /\ <<gen, occ_count, occ_first, occ_second>>'
                 # <<gen, occ_count, occ_first, occ_second>> => pc = "occupancy"
          /\ <<nodes, events>>' # <<nodes, events>> => pc \in {"destroy", "stationary"}
          /\ ants' # ants =>
                /\ pc = "commit"
                /\ \A c \in NodeIds :
                       (snap.alive[c] /\ snap.base_occ[c] + Arrivals(c) >= 2)
                           => ~ColonyAlive(c)
          /\ pc = "stationary" => \A ai \in Range(snap.active) : Committed(ai)]_vars

C22_Witness ==
    /\ pc = "stationary"
    /\ \E c \in NodeIds : snap.alive[c] /\ ~ColonyAlive(c)
    /\ \E i \in AntIds : ants[i].pos # snap.ants[i].pos
    /\ base_touched # <<>>

\* active agents of the running tick whose destination was alive at the start
\* of the tick and is destroyed now
DestinationDestroyed ==
    {ai \in Range(snap.active) :
        snap.alive[next_pos[ai]] /\ ~ColonyAlive(next_pos[ai])}

\* C23 - An active agent whose destination colony is destroyed in the tick's
\* arrival resolution is, after the commit, alive=false, trapped=false and
\* out of the active set, with position and move counter unchanged; once an
\* agent is dead its position and move counter never change.
C23_KilledInPlace ==
    /\ [](pc = "stationary" =>
             \A ai \in DestinationDestroyed :
                 /\ ~IsAlive(ants[ai]) /\ ~IsTrapped(ants[ai])
                 /\ ai \notin Range(active)
                 /\ ants[ai].pos = snap.ants[ai].pos
                 /\ ants[ai].moves = snap.ants[ai].moves)
    /\ [][\A i \in AntIds \cap DOMAIN ants' :
             ~IsAlive(ants[i]) =>
                 /\ ants'[i].pos = ants[i].pos
                 /\ ants'[i].moves = ants[i].moves]_vars

C23_Witness ==
    /\ pc = "stationary"
    /\ \E ai \in DestinationDestroyed :
          /\ next_pos[ai] # ants[ai].pos
          /\ ants[ai].moves >= 1

\* active agents of the running tick that drew an exit leading back to their
\* own colony
SelfDestination ==
    {ai \in Range(snap.active) :
        next_pos[ai] = snap.ants[ai].pos /\ ~trapped_now[ai]}

\* C24 - An active agent whose chosen destination equals its current colony
\* without being trapped, and whose colony is not destroyed in the tick, is
\* left unchanged by the commit (position, move counter, flags) and stays in
\* the active set.
C24_SelfExitLeavesAgent ==
    pc \in {"stationary", "exit_check"} =>
        \A ai \in SelfDestination :
            ColonyAlive(next_pos[ai]) =>
                /\ ants[ai] = snap.ants[ai]
                /\ ai \in Range(active)

C24_Witness ==
    /\ pc = "exit_check"
    /\ ticks >= 2
    /\ \E ai \in SelfDestination : ColonyAlive(next_pos[ai])
    /\ Len(active) >= 2

\* C25 - At the start of every tick (after the set-up that follows the
\* time-zero pass, and after each tick's commit) the active list has no
\* duplicate index and holds exactly the agents with alive=true,
\* trapped=false and move counter below the limit.
C25_ActiveIsEligible ==
    pc \in {"loop", "stationary", "exit_check"} =>
        /\ Len(active) = Cardinality(Range(active))
        /\ Range(active) = {i \in AntIds : /\ IsAlive(ants[i])
                                          /\ ~IsTrapped(ants[i])
                                          /\ ants[i].moves < args.max_moves}

C25_Witness ==
    /\ pc = "loop"
    /\ ticks >= 1
    /\ Len(active) = 2
    /\ active[1] > active[2]
    /\ \E i \in AntIds : IsTrapped(ants[i])

\* active agents of the running tick that become stationary at colony c, by
\* their decision alone
NewStationaryAt(c) ==
    {ai \in Range(snap.active) :
        /\ next_pos[ai] = c
        /\ \/ trapped_now[ai]
           \/ /\ next_pos[ai] # snap.ants[ai].pos
              /\ snap.ants[ai].moves + 1 >= args.max_moves}

\* the agent after the tick, from its state at tick start, its decision and
\* the liveness of its destination
AfterTick(i) ==
    LET a == snap.ants[i]
    IN  IF i \notin Range(snap.active) THEN a
        ELSE IF ~ColonyAlive(next_pos[i]) THEN [a EXCEPT !.state = 0]
        ELSE IF trapped_now[i] THEN [a EXCEPT !.state = ALIVE + TRAPPED]
        ELSE IF next_pos[i] # a.pos
             THEN [a EXCEPT !.pos = next_pos[i], !.moves = @ + 1]
        ELSE a

\* C26 - Order insensitivity: whatever the order of the active list, the
\* colony liveness, stock counts, agent positions, move counters, flags and
\* active-set membership after a tick are the ones fixed by the state at tick
\* start and the per-agent decisions, none of which mentions the order.
C26_OrderInsensitive ==
    pc = "exit_check" =>
        /\ \A c \in NodeIds :
              /\ ColonyAlive(c) <=>
                    (snap.alive[c] /\ snap.base_occ[c] + Arrivals(c) < 2)
              /\ base_occ[c] = IF ColonyAlive(c)
                               THEN snap.base_occ[c] + Cardinality(NewStationaryAt(c))
                               ELSE 0
        /\ \A i \in AntIds : ants[i] = AfterTick(i)
        /\ Range(active) = {i \in Range(snap.active) : Eligible(AfterTick(i), args.max_moves)}

C26_Witness ==
    /\ pc = "exit_check"
    /\ Len(snap.active) = 3
    /\ \E c \in NodeIds : snap.alive[c] /\ ~ColonyAlive(c)
    /\ \E c \in NodeIds : NewStationaryAt(c) # {} /\ ColonyAlive(c)
    /\ \E i, j \in AntIds : i < j /\ occ_first[next_pos[i]] = j /\ occ_second[next_pos[i]] = i

\* scratch tables explicitly reset, for every colony, to the stationary stock
ResetScratch ==
    [occ_count |-> base_occ, occ_first |-> base_first, occ_second |-> base_second]

\* the occupancy pass over explicitly reset tables: no stamp is consulted
RECURSIVE ResetOccupancy(_, _)
ResetOccupancy(o, i) ==
    IF i > Len(active) THEN o
    ELSE LET ai == active[i]
         IN  IF ~IsAlive(ants[ai]) THEN ResetOccupancy(o, i + 1)
             ELSE ResetOccupancy(AddOccupant(o, next_pos[ai], ants[ai].id), i + 1)

\* colonies some live active agent is heading to this tick
TouchedNow == {next_pos[ai] : ai \in {k \in Range(active) : IsAlive(ants[k])}}

\* after step 2 the stamped tables agree, on every colony touched this tick,
\* with tables reset to the stock at tick start, and the touched list holds
\* exactly those colonies, once each
C27_TablesAgree ==
    (pc = "destroy" /\ ticks + 1 < gen_mod) =>
        LET ref == ResetOccupancy(ResetScratch, 1)
        IN  /\ \A c \in TouchedNow :
                  /\ occ_count[c] = ref.occ_count[c]
                  /\ occ_first[c] = ref.occ_first[c]
                  /\ occ_second[c] = ref.occ_second[c]
            /\ Range(touched_nodes) = TouchedNow
            /\ Len(touched_nodes) = Cardinality(TouchedNow)

\* step 3 destroys exactly the live colonies the reset tables hold two or
\* more occupants for
C27_SameDestroyed ==
    (pc = "destroy" /\ ticks + 1 < gen_mod) =>
        LET ref == ResetOccupancy(ResetScratch, 1)
        IN  \A c \in NodeIds :
                (ColonyAlive(c) /\ ~IsAliveNode(nodes'[c])) <=>
                    (ColonyAlive(c) /\ ref.occ_count[c] >= 2)

\* C27 - Lazy reset equivalence: while the generation counter has not
\* wrapped, the generation-stamped scratch tables give, for every colony
\* touched in the tick, what tables explicitly reset to the stationary stock
\* at tick start give; the same colonies are destroyed in every tick and the
\* touched list holds each touched colony exactly once.
C27_LazyResetEquivalence ==
    /\ []C27_TablesAgree
    /\ [][C27_SameDestroyed]_vars

C27_Witness ==
    /\ pc = "destroy" /\ ticks >= 2
    /\ \E c \in Range(touched_nodes), i \in Range(active) :
          /\ ants[i].pos = c /\ ants[i].moves >= 1
          /\ next_pos[i] # c
          /\ occ_count[c] = 1
          /\ occ_first[c] # i
    /\ \E c \in Range(touched_nodes) : occ_count[c] >= 2 /\ base_occ[c] = 1

\* C28 - Wrap safety: with a generation counter of GenWidth bits, a colony
\* not yet touched in the current tick never carries the current generation,
\* so after step 2 every colony touched in the tick is in the touched list
\* and its scratch is what the stock plus this tick's arrivals give.
C28_WrapSafe ==
    /\ pc = "occupancy" => \A c \in NodeIds : gen[c] # cur_gen
    /\ pc = "destroy" =>
          LET ref == ResetOccupancy(ResetScratch, 1)
          IN  /\ TouchedNow \subseteq Range(touched_nodes)
              /\ \A c \in TouchedNow : occ_count[c] = ref.occ_count[c]

\* C29 - Stationary stock bound: at every point of the run each colony's
\* stationary stock count is 0 or 1, the end of every tick included.
C29_StockAtMostOne ==
    \A c \in DOMAIN base_occ : base_occ[c] \in {0, 1}

C29_Witness ==
    /\ pc = "exit_check"
    /\ \E c \in NodeIds : snap.base_occ[c] = 1 /\ Arrivals(c) >= 1 /\ base_occ[c] = 0
    /\ \E c \in NodeIds : snap.base_occ[c] = 0 /\ base_occ[c] = 1

\* the stationary stock of every destroyed colony is empty
DestroyedStockEmpty ==
    \A c \in DOMAIN base_occ :
        ~ColonyAlive(c) => /\ base_occ[c] = 0
                           /\ base_first[c] = NO_ANT
                           /\ base_second[c] = NO_ANT

\* once decided, no active agent's destination is a colony that was already
\* destroyed when the tick started
NoDestroyedDestination ==
    pc \in {"occupancy", "destroy", "commit", "stationary", "exit_check"} =>
        \A ai \in Range(snap.active) : snap.alive[next_pos[ai]]

\* no step changes the stock of a colony already destroyed at tick start
NoRegistrationAtDestroyed ==
    \A c \in DOMAIN base_occ :
        (pc \in {"destroy", "commit", "stationary"} /\ ~snap.alive[c]) =>
            /\ base_occ'[c] = base_occ[c]
            /\ base_first'[c] = base_first[c]
            /\ base_second'[c] = base_second[c]

\* C30 - Destroyed colonies hold no stock: from its destruction onwards a
\* destroyed colony's stationary stock is empty (count 0, both id slots at
\* the sentinel), and no agent is registered as stationary at, or chooses as
\* destination, a colony that was already destroyed at the start of the tick.
C30_DestroyedColonyStock ==
    /\ []DestroyedStockEmpty
    /\ []NoDestroyedDestination
    /\ [][NoRegistrationAtDestroyed]_vars

C30_Witness ==
    /\ pc = "exit_check"
    /\ \E c \in NodeIds :
          /\ ~snap.alive[c]
          /\ \E z \in AntIds : IsTrapped(ants[z]) /\ ants[z].pos = c
          /\ \E i \in Range(snap.active) :
                \E k \in 1..4 : nodes[snap.ants[i].pos].neighbors[k] = c
    /\ \E c \in NodeIds : snap.base_occ[c] = 0 /\ base_occ[c] = 1

\* C31 - Calls on live colonies: at the start of every tick and when step 1
\* calls choose_next_position, every agent of the active list stands on a
\* valid colony id whose colony is alive, and every exit of that colony is
\* the sentinel or a valid colony id.
C31_CallOnLiveColony ==
    pc \in {"loop", "decide"} =>
        \A ai \in Range(active) :
            /\ ants[ai].pos \in NodeIds
            /\ ColonyAlive(ants[ai].pos)
            /\ \A k \in 1..4 :
                  LET n == nodes[ants[ai].pos].neighbors[k]
                  IN  n = INVALID_NODE \/ n \in NodeIds

C31_Witness ==
    /\ pc = "decide" /\ ticks >= 2
    /\ \E ai \in Range(active) :
          /\ ants[ai].moves >= 1
          /\ \E k \in 1..4 :
                LET n == nodes[ants[ai].pos].neighbors[k]
                IN  n # INVALID_NODE /\ ~ColonyAlive(n)

\* C32 - Step 5 is idle: the pure-stationary resolution never destroys a
\* colony, logs no event and leaves every stock entry as the commit left it.
C32_StationaryStepIdle ==
    [][pc = "stationary" =>
          /\ nodes' = nodes
          /\ events' = events
          /\ base_occ' = base_occ
          /\ base_first' = base_first
          /\ base_second' = base_second]_vars

C32_Witness ==
    /\ pc = "exit_check"
    /\ Len(base_touched) >= 1
    /\ \E c \in NodeIds : snap.alive[c] /\ ~ColonyAlive(c)

\* agents with alive=true whose position is colony c
LiveAt(c) == {i \in AntIds : IsAlive(ants[i]) /\ ants[i].pos = c}

\* C33 - One live agent per live colony: after the time-zero pass and at the
\* end of every tick, every alive colony is the position of at most one agent
\* with alive=true, whether active, trapped or move-exhausted.
C33_OneLiveAgentPerLiveColony ==
    pc \in {"setup", "loop", "exit_check", "done"} =>
        \A c \in NodeIds : ColonyAlive(c) => Cardinality(LiveAt(c)) <= 1

C33_Witness ==
    /\ pc = "exit_check" /\ ticks >= 2
    /\ \E i, j \in AntIds :
          /\ i # j /\ IsAlive(ants[i]) /\ IsAlive(ants[j])
          /\ ants[i].pos = snap.ants[j].pos
          /\ ants[j].pos # snap.ants[j].pos
          /\ ants[i].pos # snap.ants[i].pos

DestroyedColonies == {c \in NodeIds : ~ColonyAlive(c)}

\* ids named by the k-th destruction event
EventIds(k) == {events[k][2], events[k][3]}

NoSelfExit ==
    \A c \in NodeIds : \A k \in 1..4 : nodes[c].neighbors[k] # c

\* every agent that went through the tick as active has one more move, is
\* trapped or is dead
ProgressInTick ==
    \A i \in Range(snap.active) :
        \/ ants[i].moves = snap.ants[i].moves + 1
        \/ IsTrapped(ants[i])
        \/ ~IsAlive(ants[i])

\* C35 - Termination without self exits: on a world in which no colony has an
\* exit to itself the loop body runs at most max_moves times, and at the end
\* of each tick every agent that was active in it has incremented its move
\* counter, become trapped or died.
C35_TicksBoundedWithoutSelfExit ==
    NoSelfExit =>
        /\ ticks <= args.max_moves
        /\ pc = "exit_check" => ProgressInTick

C35_Witness ==
    /\ NoSelfExit
    /\ pc = "exit_check"
    /\ ticks = args.max_moves /\ ticks = MaxMoveLimit
    /\ active = <<>>
    /\ AliveAnts >= 2
    /\ \E i \in AntIds : ants[i].moves = args.max_moves

\* agents that went through the running tick as active and left their colony
\* for a destination that survived the tick
MovedOut ==
    {i \in Range(snap.active) :
        /\ next_pos[i] # snap.ants[i].pos
        /\ ColonyAlive(next_pos[i])}

\* two active agents exchanging their colonies with nobody else involved
Exchange(i, j) ==
    /\ i # j
    /\ next_pos[i] = snap.ants[j].pos
    /\ next_pos[j] = snap.ants[i].pos
    /\ snap.ants[i].pos # snap.ants[j].pos
    /\ Arrivals(next_pos[i]) = 1 /\ Arrivals(next_pos[j]) = 1
    /\ snap.base_occ[next_pos[i]] = 0 /\ snap.base_occ[next_pos[j]] = 0

\* C36 - Occupancy at destinations only: an active agent that moves out of a
\* colony is alive and at its destination after the tick whenever that
\* destination survived, whatever happened to the colony it left; two agents
\* that exchange colonies, with no other occupant, destroy neither colony.
C36_DestinationsOnly ==
    pc = "exit_check" =>
        /\ \A i \in MovedOut : IsAlive(ants[i]) /\ ants[i].pos = next_pos[i]
        /\ \A i, j \in Range(snap.active) :
              Exchange(i, j) => /\ ColonyAlive(next_pos[i])
                                /\ ColonyAlive(next_pos[j])
                                /\ IsAlive(ants[i]) /\ IsAlive(ants[j])

C36_Witness ==
    /\ pc = "exit_check"
    /\ \E i \in MovedOut :
          /\ snap.alive[snap.ants[i].pos]
          /\ ~ColonyAlive(snap.ants[i].pos)
          /\ IsAlive(ants[i])

C36_ExchangeWitness ==
    /\ pc = "exit_check"
    /\ \E i, j \in Range(snap.active) : Exchange(i, j)

\* with a move limit of 0: no tick is started, the active list is empty and
\* no agent has moved or is trapped
ZeroLimitIdle ==
    args.max_moves = 0 =>
        /\ ticks = 0
        /\ active = <<>>
        /\ \A i \in AntIds : ants[i].moves = 0 /\ ~IsTrapped(ants[i])

\* with a move limit of 0, nothing after the time-zero pass changes a colony,
\* an agent or the event log
ZeroLimitKeepsTimeZero ==
    (args.max_moves = 0 /\ pc \notin {"create", "t0"}) =>
        /\ nodes' = nodes
        /\ ants' = ants
        /\ events' = events

\* C37 - Move limit 0: the active set is empty from the start, the loop body
\* never runs, no agent moves or is marked trapped, and the colony liveness
\* and agent flags at the end are those the time-zero pass produced.
C37_ZeroMoveLimit ==
    /\ []ZeroLimitIdle
    /\ [][ZeroLimitKeepsTimeZero]_vars

C37_Witness ==
    /\ pc = "done" /\ args.max_moves = 0
    /\ \E c \in NodeIds : ~ColonyAlive(c)
    /\ \E i \in AntIds :
          /\ IsAlive(ants[i])
          /\ \A k \in 1..4 : nodes[ants[i].pos].neighbors[k] = INVALID_NODE

\* after process_stationary_collisions no colony that received a stationary
\* agent in the tick is alive with a stock of 2 or more
NoLiveColonyWithTwoAdded ==
    pc = "detector_processed" =>
        \A c \in detector.added :
            ColonyAlive(c) => detector.base_occupancy[c] < 2

\* a colony the call destroys has its stock cleared by the same call
DestroyedStockCleared ==
    \A c \in NodeIds :
        (ColonyAlive(c) /\ ~IsAliveNode(nodes'[c])) =>
            /\ detector'.base_occupancy[c] = 0
            /\ detector'.base_first[c] = NO_ANT
            /\ detector'.base_second[c] = NO_ANT

\* C38 - CollisionDetector stationary layer: after the add_stationary_ant
\* calls of one tick, process_stationary_collisions destroys every
\* still-alive colony that received a new stationary agent in the tick and
\* whose stock is at least 2, also when agents were added at other colonies
\* afterwards, and clears the stock of each colony it destroys.
C38_StationaryLayer ==
    /\ []NoLiveColonyWithTwoAdded
    /\ [][DestroyedStockCleared]_vars

\* main has taken every step the engine has taken
InStep == orig.pc = pc

\* C39 - Equivalence with the original loop: from the same world, agents,
\* move limit and draws, whenever main has taken the steps the engine has
\* taken, both hold the same colony liveness, agents, active list and
\* destruction events; every step of main lands on the engine's position, so
\* this covers the end of the time-zero pass and of every tick.
C39_SameAsOriginal ==
    /\ [](InStep /\ pc \notin {"create"} =>
             /\ \A c \in NodeIds : orig.nodes[c].alive = ColonyAlive(c)
             /\ orig.ants = ants
             /\ orig.active = active
             /\ orig.events = events
             /\ orig.ticks = ticks)
    /\ [][orig' # orig => orig'.pc = pc]_vars

C39_Witness ==
    /\ InStep /\ pc = "exit_check" /\ ticks >= 2
    /\ Len(events) >= 1
    /\ \E i \in AntIds : IsTrapped(ants[i])
    /\ \E c \in NodeIds : base_occ[c] = 1 /\ orig.base_occ[c] = 1

\* positions in the active list of the live agents heading to colony c
ArrivalSlots(c) ==
    {k \in 1..Len(active) : IsAlive(ants[active[k]]) /\ next_pos[active[k]] = c}

\* the n-th agent, in iteration order, heading to colony c
NthArrival(c, n) ==
    LET k == CHOOSE x \in ArrivalSlots(c) :
                 Cardinality({y \in ArrivalSlots(c) : y < x}) = n - 1
    IN  ants[active[k]].id

\* agents standing at c as stationary since before the running tick
StationaryIds(c) ==
    {i \in AntIds : /\ i \notin Range(snap.active)
                    /\ IsAlive(snap.ants[i])
                    /\ IsTrapped(snap.ants[i]) \/ HasMaxMoves(snap.ants[i], args.max_moves)
                    /\ snap.ants[i].pos = c}

\* after step 2: a touched colony with one stationary occupant s records s
\* first and the first arrival second, a colony without stock records its
\* first two arrivals, whatever the number of later arrivals
IdsRecorded ==
    pc \in {"destroy", "commit"} =>
        \A c \in TouchedNow :
            /\ snap.base_occ[c] = 1 =>
                  /\ StationaryIds(c) = {occ_first[c]}
                  /\ occ_second[c] = NthArrival(c, 1)
            /\ snap.base_occ[c] = 0 =>
                  /\ occ_first[c] = NthArrival(c, 1)
                  /\ Arrivals(c) >= 2 => occ_second[c] = NthArrival(c, 2)

\* after step 3: the event of a colony destroyed in the tick names the two
\* recorded ids in that order
IdsLogged ==
    pc = "commit" =>
        \A c \in NodeIds :
            (snap.alive[c] /\ ~ColonyAlive(c)) =>
                \E k \in 1..Len(events) :
                    events[k] = <<c, occ_first[c], occ_second[c]>>

\* C40 - Id attribution: a colony with exactly one stationary occupant s that
\* receives its first arrival a records first = s and second = a, and its
\* destruction event names s first and a second; once the count has reached
\* 2 further arrivals change neither recorded id.
C40_IdAttribution == IdsRecorded /\ IdsLogged

C40_Witness ==
    /\ pc = "commit"
    /\ \E c \in NodeIds :
          /\ snap.base_occ[c] = 1 /\ Arrivals(c) >= 2 /\ ~ColonyAlive(c)
          /\ occ_count[c] = 3

====
